---- MODULE Spec2Model ----
(***************************************************************************)
(* A model of the Bril optimizer (bril-ts): the CFG node graph and its     *)
(* mutators, CFG construction from a function's item list, dominators and  *)
(* natural loops, the dataflow worklist driver with its analyses, dead     *)
(* code elimination, serialization back to Bril, and the reference         *)
(* interpreter used to compare a program with its optimized form.          *)
(***************************************************************************)
EXTENDS Integers, Sequences, FiniteSets, TLC

VARIABLES
  func,      \* the function under work: its item list (labels and instructions)
  pc,        \* position of the tool in its pipeline
  cfg,       \* the CFG nodes: node name -> [instrs, termInstr, successors, predecessors]
  nodeList,  \* the ordered node list (names)
  idx,       \* loop position inside the running pipeline step
  result,    \* removeUnreachableNodes: the nodes kept so far
  doms,      \* the dominator map (node name -> set of names), once computed
  loops,     \* the natural loops found: records [blocks, entry, from]
  bril,      \* the item list serialized from the CFG
  analysis,  \* dfWorklist: the analysis being run
  ins,       \* dfWorklist: the map ins
  outs,      \* dfWorklist: the map outs
  worklist,  \* dfWorklist: the worklist
  dfResult,  \* dfWorklist: the returned record [ins, outs]
  dfBlocks,  \* dfWorklist: its argument blocks, the node list it is given
  runP,      \* the interpreter's run of the function as given
  runQ,      \* the interpreter's run of the function a pass produced
  iv,        \* eliminateInductionVars: reaching_definitions, defined and
             \* the counter of fresh_vars
  mem,       \* a Heap: its storage (base -> cells) and its counter of bases
  call,      \* the last call made on the Heap or on a Key, with its outcome
  run        \* brili: the position of evalProg/evalFunc in main, the
             \* environment, the output written and the count of items

loopVars == <<doms, loops>>

dfVars == <<analysis, ins, outs, worklist, dfResult, dfBlocks>>

runVars == <<runP, runQ>>

heapVars == <<mem, call>>

vars ==
  <<func, pc, cfg, nodeList, idx, result, loopVars, bril, dfVars, runVars, iv, heapVars, run>>

\* the dataflow driver before it is called
DfIdle ==
  /\ analysis = "none"
  /\ ins = <<>>
  /\ outs = <<>>
  /\ worklist = <<>>
  /\ dfResult = <<>>
  /\ dfBlocks = <<>>

\* the interpreter before it is started
RunIdle ==
  /\ runP = <<>>
  /\ runQ = <<>>

\* the induction-variable pass before it is called
IvIdle == iv = <<>>

\* no Heap constructed yet, no call made
HeapIdle ==
  /\ mem = <<>>
  /\ call = <<>>

\* brili before main is entered
InterpIdle == run = <<>>

(***************************************************************************)
(* Bounds of the model.                                                    *)
(***************************************************************************)
MaxItems == 4

MaxMutations == 3

(***************************************************************************)
(* Instructions (bril.ts).  Every item is one record shape; a field an     *)
(* instruction does not carry holds NoDest / <<>> / JNum(0) / "none".      *)
(***************************************************************************)
NoDest == "-"

\* the JSON literal of a const instruction: a number or a boolean
JNum(n) == [isNum |-> TRUE, num |-> n, bool |-> FALSE]

JBool(b) == [isNum |-> FALSE, num |-> 0, bool |-> b]

Label(l) == [op |-> "label", dest |-> NoDest, args |-> <<l>>, value |-> JNum(0), type |-> "none"]

EffectOp(o, as) == [op |-> o, dest |-> NoDest, args |-> as, value |-> JNum(0), type |-> "none"]

ValueOp(o, d, as, t) == [op |-> o, dest |-> d, args |-> as, value |-> JNum(0), type |-> t]

Const(d, v, t) == [op |-> "const", dest |-> d, args |-> <<>>, value |-> v, type |-> t]

IsLabel(i) == i.op = "label"

isOperation(i) == i.op # "const"

isValueInstruction(i) == i.dest # NoDest

isTerminator(i) == i.op \in {"br", "jmp", "ret"}

entryLabel == "__entry__"

exitLabel == "__exit__"

SeqToSet(s) == {s[k] : k \in 1..Len(s)}

(***************************************************************************)
(* CFGNode (cfg-defs).  A HashSet<CFGNode> compares nodes by name, so it   *)
(* is a set of names; the graph is the map from each name to its node.     *)
(***************************************************************************)
CFGNode(block) ==
  [instrs |-> block.instrs, termInstr |-> block.termInstr,
   successors |-> {}, predecessors |-> {}]

setSuccessors(g, this, trueBr, falseBr, cond) ==
  LET g1 == [g EXCEPT ![this].successors = {trueBr, falseBr}]
      g2 == [g1 EXCEPT ![trueBr].predecessors = @ \cup {this}]
      g3 == [g2 EXCEPT ![falseBr].predecessors = @ \cup {this}]
  IN  [g3 EXCEPT ![this].termInstr = EffectOp("br", <<cond, trueBr, falseBr>>)]

\* mutant: the target's predecessor set is not updated
setSuccessor_NoPredecessor(g, this, n) ==
  LET g1 == [g EXCEPT ![this].successors = {n}]
  IN  [g1 EXCEPT ![this].termInstr = EffectOp("jmp", <<n>>)]

setSuccessor(g, this, n) ==
  LET g1 == [g EXCEPT ![this].successors = {n}]
      g2 == [g1 EXCEPT ![n].predecessors = @ \cup {this}]
  IN  [g2 EXCEPT ![this].termInstr = EffectOp("jmp", <<n>>)]

setInstrs(g, this, instrs) == [g EXCEPT ![this].instrs = instrs]

addEdgeTo(g, this, other) ==
  LET g1 == [g EXCEPT ![this].successors = @ \cup {other}]
  IN  [g1 EXCEPT ![other].predecessors = @ \cup {this}]

removeEdgeTo(g, this, other) ==
  LET g1 == [g EXCEPT ![this].successors = @ \ {other}]
  IN  [g1 EXCEPT ![other].predecessors = @ \ {this}]

replaceEdgeTo(g, this, originalSucc, newSucc) ==
  IF originalSucc \notin g[this].successors THEN g
  ELSE LET g1 == removeEdgeTo(g, this, originalSucc)
           g2 == addEdgeTo(g1, this, newSucc)
           old == g2[this].termInstr.args
       IN  [g2 EXCEPT ![this].termInstr.args =
              [k \in 1..Len(old) |-> IF old[k] = originalSucc THEN newSucc ELSE old[k]]]

RECURSIVE removeEdgesTo(_, _, _)
removeEdgesTo(g, this, others) ==
  IF others = {} THEN g
  ELSE LET s == CHOOSE s \in others : TRUE
       IN  removeEdgesTo(removeEdgeTo(g, this, s), this, others \ {s})

RECURSIVE removeEdgesFrom(_, _, _)
removeEdgesFrom(g, this, others) ==
  IF others = {} THEN g
  ELSE LET s == CHOOSE s \in others : TRUE
       IN  removeEdgesFrom(removeEdgeTo(g, s, this), this, others \ {s})

delete(g, this) ==
  LET g1 == removeEdgesTo(g, this, g[this].successors)
  IN  removeEdgesFrom(g1, this, g1[this].predecessors)

(***************************************************************************)
(* The bidirectional edge invariant of a graph.                            *)
(***************************************************************************)
Bidirectional(g) ==
  \A a \in DOMAIN g : \A b \in DOMAIN g :
    (a \in g[b].predecessors) <=> (b \in g[a].successors)

(***************************************************************************)
(* SpecCFG: the mutators of CFGNode applied in any order to the nodes of   *)
(* a graph of freshly constructed nodes; idx counts the mutations applied. *)
(***************************************************************************)
GraphNodes == {"a", "b", "c"}

CondVars == {"c"}

FreshBlock == [instrs |-> <<>>, termInstr |-> EffectOp("ret", <<>>)]

InitCFG ==
  /\ func = <<>>
  /\ pc = "mutate"
  /\ cfg = [n \in GraphNodes |-> CFGNode(FreshBlock)]
  /\ nodeList = <<"a", "b", "c">>
  /\ idx = 0
  /\ result = <<>>
  /\ doms = <<>>
  /\ loops = <<>>
  /\ bril = <<>>
  /\ DfIdle
  /\ RunIdle
  /\ IvIdle
  /\ HeapIdle
  /\ InterpIdle

SetSuccessor ==
  \E n \in GraphNodes, t \in GraphNodes :
    /\ idx < MaxMutations
    /\ cfg' = setSuccessor(cfg, n, t)
    /\ idx' = idx + 1
    /\ UNCHANGED <<func, pc, nodeList, result, loopVars, bril, dfVars, runVars, iv, heapVars, run>>

SetSuccessors ==
  \E n \in GraphNodes, t \in GraphNodes, f \in GraphNodes, c \in CondVars :
    /\ idx < MaxMutations
    /\ cfg' = setSuccessors(cfg, n, t, f, c)
    /\ idx' = idx + 1
    /\ UNCHANGED <<func, pc, nodeList, result, loopVars, bril, dfVars, runVars, iv, heapVars, run>>

ReplaceEdgeTo ==
  \E n \in GraphNodes, o \in GraphNodes, w \in GraphNodes :
    /\ idx < MaxMutations
    /\ cfg' = replaceEdgeTo(cfg, n, o, w)
    /\ idx' = idx + 1
    /\ UNCHANGED <<func, pc, nodeList, result, loopVars, bril, dfVars, runVars, iv, heapVars, run>>

Delete ==
  \E n \in GraphNodes :
    /\ idx < MaxMutations
    /\ cfg' = delete(cfg, n)
    /\ idx' = idx + 1
    /\ UNCHANGED <<func, pc, nodeList, result, loopVars, bril, dfVars, runVars, iv, heapVars, run>>

NextCFG == SetSuccessor \/ SetSuccessors \/ ReplaceEdgeTo \/ Delete

SpecCFG == InitCFG /\ [][NextCFG]_vars

\* C1: after any sequence of setSuccessor, setSuccessors, replaceEdgeTo and
\* delete, a is in b.predecessors iff b is in a.successors, for all nodes a, b.
C1_BidirectionalAfterMutators == Bidirectional(cfg)

(***************************************************************************)
(* CFG construction (bril-opt.ts): basic blocks, fall-through terminators, *)
(* edge wiring and removal of nodes without predecessors.                  *)
(***************************************************************************)
NoName == ""

RECURSIVE freshNameFrom(_, _, _)
freshNameFrom(prefix, used, counter) ==
  LET name == prefix \o "_" \o ToString(counter)
  IN  IF name \in used THEN freshNameFrom(prefix, used, counter + 1) ELSE name

freshName(prefix, used) == freshNameFrom(prefix, used, 0)

getUsedLabels(items) == {items[k].args[1] : k \in {j \in 1..Len(items) : IsLabel(items[j])}}

isEmpty(block) == \A k \in 1..Len(block.instrs) : block.instrs[k].op = "nop"

addBlock(blocks, block, usedNames) ==
  LET name == IF block.name = NoName THEN freshName("__block", usedNames) ELSE block.name
      newBlock == [name |-> name, idx |-> block.idx, instrs |-> block.instrs]
  IN  IF block.name = NoName /\ isEmpty(block)
      THEN [blocks |-> blocks, used |-> usedNames]
      ELSE [blocks |-> Append(blocks, newBlock), used |-> usedNames \cup {name}]

RECURSIVE walkItems(_, _, _)
walkItems(items, k, st) ==
  IF k > Len(items) THEN st
  ELSE LET instr == items[k]
           closed == addBlock(st.blocks, st.cur, st.used)
           pushed == [st.cur EXCEPT !.instrs = Append(@, instr)]
           closedT == addBlock(st.blocks, pushed, st.used)
       IN  IF IsLabel(instr)
           THEN walkItems(items, k + 1,
                  [blocks |-> closed.blocks, used |-> closed.used, idx |-> st.idx + 1,
                   cur |-> [name |-> instr.args[1], instrs |-> <<>>, idx |-> st.idx + 1]])
           ELSE IF isTerminator(instr)
           THEN walkItems(items, k + 1,
                  [blocks |-> closedT.blocks, used |-> closedT.used, idx |-> st.idx + 1,
                   cur |-> [name |-> NoName, instrs |-> <<>>, idx |-> st.idx + 1]])
           ELSE walkItems(items, k + 1, [st EXCEPT !.cur = pushed])

createBasicBlocks(items) ==
  LET st0 == [blocks |-> <<>>, used |-> getUsedLabels(items), idx |-> 0,
              cur |-> [name |-> NoName, instrs |-> <<>>, idx |-> 0]]
      st == walkItems(items, 1, st0)
      last == addBlock(st.blocks, st.cur, st.used)
      withEntry == <<[name |-> entryLabel, idx |-> -1, instrs |-> <<>>]>> \o last.blocks
  IN  Append(withEntry, [name |-> exitLabel, idx |-> Len(withEntry), instrs |-> <<>>])

addFallThroughTerminators(blocks) ==
  [k \in 1..Len(blocks) |->
     LET b == blocks[k]
         n == Len(b.instrs)
     IN  IF n = 0 \/ ~isTerminator(b.instrs[n])
         THEN [name |-> b.name, instrs |-> b.instrs, idx |-> b.idx,
               termInstr |-> IF k + 1 > Len(blocks) THEN EffectOp("ret", <<>>)
                             ELSE EffectOp("jmp", <<blocks[k + 1].name>>)]
         ELSE [name |-> b.name, instrs |-> SubSeq(b.instrs, 1, n - 1), idx |-> b.idx,
               termInstr |-> b.instrs[n]]]

getSuccessors(instr) ==
  CASE instr.op = "ret" -> <<exitLabel>>
    [] instr.op = "br"  -> <<instr.args[2], instr.args[3]>>
    [] instr.op = "jmp" -> <<instr.args[1]>>
    [] OTHER -> <<>>

getNamedNodes(names, nodes) ==
  LET Named(n) == n \in SeqToSet(names)
  IN  SelectSeq(nodes, Named)

\* The nodes createCFG constructs from the terminated blocks, before wiring.
newNodes(termBlocks) ==
  [n \in {termBlocks[k].name : k \in 1..Len(termBlocks)} |->
     CFGNode(termBlocks[CHOOSE k \in 1..Len(termBlocks) : termBlocks[k].name = n])]

blockNames(termBlocks) == [k \in 1..Len(termBlocks) |-> termBlocks[k].name]

\* One iteration of createCFG's wiring loop.  setSuccessor(undefined) throws.
wireNode(g, nodes, name) ==
  LET last_instr == g[name].termInstr
      successorNodes == getNamedNodes(getSuccessors(last_instr), nodes)
  IN  IF Len(successorNodes) = 2
      THEN [err |-> FALSE,
            g |-> setSuccessors(g, name, successorNodes[1], successorNodes[2], last_instr.args[1])]
      ELSE IF name # exitLabel
      THEN IF Len(successorNodes) = 0 THEN [err |-> TRUE, g |-> g]
           ELSE [err |-> FALSE, g |-> setSuccessor(g, name, successorNodes[1])]
      ELSE [err |-> FALSE, g |-> g]

\* One iteration of removeUnreachableNodes.
pruneNode(g, root, n, kept) ==
  IF n = root \/ g[n].predecessors # {}
  THEN [g |-> g, result |-> Append(kept, n)]
  ELSE [g |-> delete(g, n), result |-> kept]

RECURSIVE wireAll(_, _, _)
wireAll(g, nodes, k) ==
  IF k > Len(nodes) THEN [err |-> FALSE, g |-> g]
  ELSE LET w == wireNode(g, nodes, nodes[k])
       IN  IF w.err THEN w ELSE wireAll(w.g, nodes, k + 1)

RECURSIVE removeUnreachableNodes(_, _, _, _)
removeUnreachableNodes(g, nodes, k, kept) ==
  IF k > Len(nodes) THEN [g |-> g, result |-> kept]
  ELSE LET p == pruneNode(g, nodes[1], nodes[k], kept)
       IN  removeUnreachableNodes(p.g, nodes, k + 1, p.result)

createCFG(blocks) ==
  LET termBlocks == addFallThroughTerminators(blocks)
      nodes == blockNames(termBlocks)
      w == wireAll(newNodes(termBlocks), nodes, 1)
      p == removeUnreachableNodes(w.g, nodes, 1, <<>>)
  IN  IF w.err THEN [err |-> TRUE, cfg |-> w.g, nodeList |-> nodes]
      ELSE [err |-> FALSE, cfg |-> p.g, nodeList |-> p.result]

createFunctionCFG(items) == createCFG(createBasicBlocks(items))

(***************************************************************************)
(* Dominators and natural loops (bril-opt.ts).  The successor and          *)
(* predecessor sets are hash sets: where the code iterates over one, the   *)
(* model takes its elements in a fixed arbitrary order (the results below  *)
(* are sets and closures that do not depend on it).                        *)
(***************************************************************************)
RECURSIVE SetToSeq(_)
SetToSeq(S) ==
  IF S = {} THEN <<>>
  ELSE LET x == CHOOSE x \in S : TRUE IN <<x>> \o SetToSeq(S \ {x})

\* postorderHelper: st = [explored, result]; todo = the successors still to visit
RECURSIVE postorderHelper(_, _, _)
RECURSIVE postorderEach(_, _, _)
postorderHelper(g, root, st) ==
  IF root \in st.explored THEN st
  ELSE LET st1 == postorderEach(g, SetToSeq(g[root].successors),
                                [st EXCEPT !.explored = @ \cup {root}])
       IN  [st1 EXCEPT !.result = Append(@, root)]

postorderEach(g, todo, st) ==
  IF todo = <<>> THEN st
  ELSE postorderEach(g, Tail(todo), postorderHelper(g, Head(todo), st))

postorder(g, root) == postorderHelper(g, root, [explored |-> {}, result |-> <<>>]).result

Reverse(s) == [k \in 1..Len(s) |-> s[Len(s) + 1 - k]]

RECURSIVE IntersectAll(_, _, _)
IntersectAll(res, ps, acc) ==
  IF ps = {} THEN acc
  ELSE LET p == CHOOSE p \in ps : TRUE
       IN  IntersectAll(res, ps \ {p}, acc \cap res[p])

\* One pass of the for loop inside getDominatorsHelper's while loop.
\* result.get(p).getOrThrow() throws for a predecessor that is not in blocks.
RECURSIVE domPass(_, _, _, _, _)
domPass(g, blocks, k, res, changed) ==
  IF k > Len(blocks) THEN [err |-> FALSE, doms |-> res, changed |-> changed]
  ELSE LET b == blocks[k]
           ps == g[b].predecessors
       IN  IF ps # {} /\ ~(ps \subseteq DOMAIN res)
           THEN [err |-> TRUE, doms |-> res, changed |-> changed]
           ELSE LET d0 == IF ps = {} THEN {} ELSE IntersectAll(res, ps, SeqToSet(blocks))
                    d == d0 \cup {b}
                IN  domPass(g, blocks, k + 1, [res EXCEPT ![b] = d],
                            changed \/ d # res[b])

RECURSIVE domLoop(_, _, _)
domLoop(g, blocks, res) ==
  LET p == domPass(g, blocks, 1, res, FALSE)
  IN  IF p.err \/ ~p.changed THEN [err |-> p.err, doms |-> p.doms]
      ELSE domLoop(g, blocks, p.doms)

getDominatorsHelper(g, blocks) ==
  domLoop(g, blocks, [b \in SeqToSet(blocks) |-> SeqToSet(blocks)])

getDominators(g, root) == getDominatorsHelper(g, Reverse(postorder(g, root)))

\* getBackEdges: doms.get(n).getOrThrow() throws for a node without an entry.
RECURSIVE getBackEdgesFrom(_, _, _, _)
getBackEdgesFrom(g, nodes, dm, k) ==
  IF k > Len(nodes) THEN [err |-> FALSE, edges |-> <<>>]
  ELSE IF nodes[k] \notin DOMAIN dm THEN [err |-> TRUE, edges |-> <<>>]
  ELSE LET n == nodes[k]
           IsBack(s) == s \in dm[n]
           here == SelectSeq(SetToSeq(g[n].successors), IsBack)
           rest == getBackEdgesFrom(g, nodes, dm, k + 1)
       IN  [err |-> rest.err,
            edges |-> [j \in 1..Len(here) |-> [from |-> n, to |-> here[j]]] \o rest.edges]

getBackEdges(g, nodes, dm) == getBackEdgesFrom(g, nodes, dm, 1)

RECURSIVE getCanReachHelper(_, _, _)
RECURSIVE getCanReachEach(_, _, _)
getCanReachHelper(g, node, explored) ==
  IF node \in explored THEN explored
  ELSE getCanReachEach(g, SetToSeq(g[node].predecessors), explored \cup {node})

getCanReachEach(g, todo, explored) ==
  IF todo = <<>> THEN explored
  ELSE getCanReachEach(g, Tail(todo), getCanReachHelper(g, Head(todo), explored))

\* mutant: the header is not marked as explored before the search
getCanReach_ThroughHeader(g, node, without) ==
  getCanReachHelper(g, node, {}) \cup {without}

getCanReach(g, node, without) == getCanReachHelper(g, node, {without})

findNaturalLoops(g, nodes, dm) ==
  LET be == getBackEdges(g, nodes, dm)
  IN  [err |-> be.err,
       loops |-> [k \in 1..Len(be.edges) |->
                    [blocks |-> getCanReach(g, be.edges[k].from, be.edges[k].to),
                     entry |-> be.edges[k].to]]]

(***************************************************************************)
(* Serialization of a CFG back to an item list (bril-opt.ts).              *)
(***************************************************************************)
RECURSIVE cfgToBrilFrom(_, _, _)
cfgToBrilFrom(g, nodes, k) ==
  IF k > Len(nodes) THEN <<>>
  ELSE LET n == nodes[k]
       IN  IF n = entryLabel \/ n = exitLabel THEN cfgToBrilFrom(g, nodes, k + 1)
           ELSE <<Label(n)>> \o g[n].instrs
                \o (IF exitLabel \in g[n].successors
                    THEN <<EffectOp("ret", <<>>)>> ELSE <<g[n].termInstr>>)
                \o cfgToBrilFrom(g, nodes, k + 1)

cfgToBril(g, nodes) == cfgToBrilFrom(g, nodes, 1)

(***************************************************************************)
(* SpecBuild: the cfg/dom tools on one function.  createCFG runs one       *)
(* iteration of its loops per step; then the CFG is either serialized or   *)
(* handed to getDominators and findNaturalLoops.                           *)
(***************************************************************************)
BuildItems ==
  { Label("A"), Label("B"),
    EffectOp("jmp", <<"A">>), EffectOp("jmp", <<"B">>),
    EffectOp("br", <<"c", "A", "B">>), EffectOp("br", <<"c", "B", "A">>),
    EffectOp("ret", <<>>), EffectOp("nop", <<>>), EffectOp("print", <<"x">>) }

\* Labels of one function are pairwise distinct.
DistinctLabels(items) ==
  \A i \in 1..Len(items) : \A j \in 1..Len(items) :
    (i # j /\ IsLabel(items[i]) /\ IsLabel(items[j])) => items[i] # items[j]

BuildPrograms ==
  {f \in UNION {[1..n -> BuildItems] : n \in 0..MaxItems} : DistinctLabels(f)}

InitBuild ==
  /\ func \in BuildPrograms
  /\ pc = "start"
  /\ cfg = <<>>
  /\ nodeList = <<>>
  /\ idx = 0
  /\ result = <<>>
  /\ doms = <<>>
  /\ loops = <<>>
  /\ bril = <<>>
  /\ DfIdle
  /\ RunIdle
  /\ IvIdle
  /\ HeapIdle
  /\ InterpIdle

\* createCFG up to the construction of the nodes
CreateNodes ==
  /\ pc = "start"
  /\ LET termBlocks == addFallThroughTerminators(createBasicBlocks(func))
     IN  /\ cfg' = newNodes(termBlocks)
         /\ nodeList' = blockNames(termBlocks)
  /\ idx' = 1
  /\ pc' = "wire"
  /\ UNCHANGED <<func, result, loopVars, bril, dfVars, runVars, iv, heapVars, run>>

\* one iteration of the wiring loop of createCFG
WireNode ==
  /\ pc = "wire"
  /\ LET w == wireNode(cfg, nodeList, nodeList[idx])
     IN  IF w.err
         THEN /\ pc' = "error"
              /\ UNCHANGED <<cfg, idx>>
         ELSE /\ cfg' = w.g
              /\ idx' = IF idx = Len(nodeList) THEN 1 ELSE idx + 1
              /\ pc' = IF idx = Len(nodeList) THEN "prune" ELSE "wire"
  /\ UNCHANGED <<func, nodeList, result, loopVars, bril, dfVars, runVars, iv, heapVars, run>>

\* one iteration of removeUnreachableNodes; the last one returns the list
PruneNode ==
  /\ pc = "prune"
  /\ LET p == pruneNode(cfg, nodeList[1], nodeList[idx], result)
     IN  /\ cfg' = p.g
         /\ IF idx = Len(nodeList)
            THEN /\ nodeList' = p.result
                 /\ result' = <<>>
                 /\ idx' = 0
                 /\ pc' = "built"
            ELSE /\ result' = p.result
                 /\ idx' = idx + 1
                 /\ UNCHANGED <<nodeList, pc>>
  /\ UNCHANGED <<func, loopVars, bril, dfVars, runVars, iv, heapVars, run>>

CfgToBril ==
  /\ pc = "built"
  /\ bril' = cfgToBril(cfg, nodeList)
  /\ pc' = "serialized"
  /\ UNCHANGED <<func, cfg, nodeList, idx, result, loopVars, dfVars, runVars, iv, heapVars, run>>

GetDominators ==
  /\ pc = "built"
  /\ LET d == getDominators(cfg, nodeList[1])
     IN  IF d.err
         THEN /\ pc' = "domError"
              /\ UNCHANGED doms
         ELSE /\ pc' = "doms"
              /\ doms' = d.doms
  /\ UNCHANGED <<func, cfg, nodeList, idx, result, loops, bril, dfVars, runVars, iv, heapVars, run>>

FindNaturalLoops ==
  /\ pc = "doms"
  /\ LET l == findNaturalLoops(cfg, nodeList, doms)
     IN  IF l.err
         THEN /\ pc' = "loopError"
              /\ UNCHANGED loops
         ELSE /\ pc' = "loops"
              /\ loops' = l.loops
  /\ UNCHANGED <<func, cfg, nodeList, idx, result, doms, bril, dfVars, runVars, iv, heapVars, run>>

NextBuild ==
  CreateNodes \/ WireNode \/ PruneNode \/ CfgToBril \/ GetDominators \/ FindNaturalLoops

SpecBuild == InitBuild /\ [][NextBuild]_vars

(***************************************************************************)
(* Graph notions the claims are stated with.                               *)
(***************************************************************************)
\* the nodes reachable from the nodes of `seen` along successor edges, never
\* entering a node of `avoid`
RECURSIVE ReachAvoid(_, _, _)
ReachAvoid(g, seen, avoid) ==
  LET more == (UNION {g[n].successors : n \in seen}) \ (seen \cup avoid)
  IN  IF more = {} THEN seen ELSE ReachAvoid(g, seen \cup more, avoid)

Reachable(g, root) == ReachAvoid(g, {root}, {})

\* d dominates n: every path from the root to n contains d
Dominates(g, root, d, n) == d = n \/ d = root \/ n \notin ReachAvoid(g, {root}, {d})

LabelArgs(t) ==
  CASE t.op = "jmp" -> {t.args[1]}
    [] t.op = "br"  -> {t.args[2], t.args[3]}
    [] OTHER -> {}

(***************************************************************************)
(* Claims about CFG construction, dominators and loops (SpecBuild).        *)
(***************************************************************************)
Nodes == SeqToSet(nodeList)

\* C2: in the CFG createCFG returns, every node but __exit__ has a terminator
\* whose label arguments are the names of its successors, the edge sets are
\* mirror images, __entry__ has no predecessor and __exit__ no successor.
C2_WellFormedCFG ==
  pc = "built" =>
    /\ \A n \in Nodes \ {exitLabel} : LabelArgs(cfg[n].termInstr) = cfg[n].successors
    /\ \A a \in Nodes : \A b \in Nodes :
         (a \in cfg[b].predecessors) <=> (b \in cfg[a].successors)
    /\ cfg[entryLabel].predecessors = {}
    /\ cfg[exitLabel].successors = {}

\* C2 witness: a CFG was returned with a two-way branch in it, after a node was removed
C2_Witness ==
  /\ pc = "built"
  /\ \E n \in Nodes : cfg[n].termInstr.op = "br" /\ Cardinality(cfg[n].successors) = 2
  /\ Nodes # DOMAIN cfg

\* C3: every node of the list createCFG returns is reachable from __entry__,
\* and no node of the list has a removed node among its predecessors.
C3_OnlyReachableNodesRemain ==
  pc = "built" =>
    /\ Nodes \subseteq Reachable(cfg, entryLabel)
    /\ \A n \in Nodes : cfg[n].predecessors \subseteq Nodes

\* the instructions of an item list that are neither labels nor nops
NonNop(items) ==
  LET Keep(i) == ~IsLabel(i) /\ i.op # "nop"
  IN  SelectSeq(items, Keep)

RECURSIVE IsSubseqFrom(_, _, _, _)
IsSubseqFrom(s, t, i, j) ==
  IF i > Len(s) THEN TRUE
  ELSE IF j > Len(t) THEN FALSE
  ELSE IF s[i] = t[j] THEN IsSubseqFrom(s, t, i + 1, j + 1)
  ELSE IsSubseqFrom(s, t, i, j + 1)

IsSubseq(s, t) == IsSubseqFrom(s, t, 1, 1)

\* every jmp and br of the item list names labels the list defines
TargetsDefined(items) ==
  \A k \in 1..Len(items) : LabelArgs(items[k]) \subseteq getUsedLabels(items)

\* C4: round trip.  For a function all of whose blocks are reachable (and
\* whose jumps name defined labels), the serialized CFG is the function with
\* terminators (and labels) inserted and nop-only anonymous blocks removed:
\* its instructions other than nops appear in the output in their order, each
\* br with its original argument list.
C4_RoundTrip ==
  (/\ pc = "serialized"
   /\ TargetsDefined(func)
   /\ DOMAIN cfg \subseteq Reachable(cfg, entryLabel)) =>
    IsSubseq(NonNop(func), NonNop(bril))

\* C7: getDominators completes on every CFG createCFG returns, and gives for
\* every reachable node n exactly the nodes that are on every path from the
\* entry to n.
C7_DominatorsCorrect ==
  /\ pc # "domError"
  /\ pc = "doms" =>
       \A n \in Reachable(cfg, entryLabel) :
         /\ n \in DOMAIN doms
         /\ doms[n] = {d \in DOMAIN cfg : Dominates(cfg, entryLabel, d, n)}

\* C8: for every loop findNaturalLoops returns, with header h and tail t (the
\* source of the loop's back edge): h dominates t, the body holds h and t, and
\* the body is exactly h plus the nodes that reach t without passing through h.
C8_NaturalLoops ==
  pc = "loops" =>
    LET be == getBackEdges(cfg, nodeList, doms).edges
    IN  /\ Len(loops) = Len(be)
        /\ \A k \in 1..Len(loops) :
             LET h == loops[k].entry
                 t == be[k].from
                 body == loops[k].blocks
             IN  /\ be[k].to = h
                 /\ Dominates(cfg, entryLabel, h, t)
                 /\ t \in Reachable(cfg, entryLabel)
                 /\ {h, t} \subseteq body
                 /\ \A n \in body : t \in ReachAvoid(cfg, {n}, {h} \ {t})
                 /\ \A n \in DOMAIN cfg :
                      (n # h /\ t \in ReachAvoid(cfg, {n}, {h})) => n \in body

\* C8 witness: a loop was found whose tail is not its header
C8_Witness ==
  /\ pc = "loops"
  /\ \E k \in 1..Len(loops) : Cardinality(loops[k].blocks) >= 2

(***************************************************************************)
(* Dataflow analyses (bril-df.ts).  A HashSet<string> is a set of names, a *)
(* Definition is the record [varName, block, index].                       *)
(***************************************************************************)
setUnion(sets) == UNION sets

written(block) ==
  {block.instrs[k].dest : k \in {j \in 1..Len(block.instrs) : isValueInstruction(block.instrs[j])}}

reads(i) ==
  IF ~isOperation(i) THEN {}
  ELSE IF i.op = "br" THEN {i.args[1]}
  ELSE IF i.op # "jmp" THEN SeqToSet(i.args)
  ELSE {}

RECURSIVE usedFrom(_, _, _, _)
usedFrom(instrs, k, localDef, acc) ==
  IF k > Len(instrs) THEN acc
  ELSE usedFrom(instrs, k + 1,
                IF isValueInstruction(instrs[k]) THEN localDef \cup {instrs[k].dest} ELSE localDef,
                acc \cup (reads(instrs[k]) \ localDef))

used(block) == usedFrom(Append(block.instrs, block.termInstr), 1, {}, {})

addDefined(block, inVals) == inVals \cup written(block)

Definition(n, b, k) == [varName |-> n, block |-> b, index |-> k]

RECURSIVE reachingFrom(_, _, _, _)
reachingFrom(instrs, name, k, res) ==
  IF k > Len(instrs) THEN res
  ELSE IF isValueInstruction(instrs[k])
       THEN reachingFrom(instrs, name, k + 1,
              {d \in res : d.varName # instrs[k].dest}
                \cup {Definition(instrs[k].dest, name, k - 1)})
       ELSE reachingFrom(instrs, name, k + 1, res)

\* mutant: the definitions made in the block are added and nothing is removed
reachingTransfer_NoKill(g, name, inVals) ==
  inVals \cup {Definition(g[name].instrs[k].dest, name, k - 1) :
                 k \in {j \in 1..Len(g[name].instrs) : isValueInstruction(g[name].instrs[j])}}

reachingTransfer(g, name, inVals) == reachingFrom(g[name].instrs, name, 1, inVals)

liveTransfer(block, outVals) == setUnion({used(block), outVals \ written(block)})

Analyses == {"definedVars", "reachingDefinitions", "liveVars"}

isForward(a) == a # "liveVars"

transfer(a, g, name, vals) ==
  CASE a = "definedVars"         -> addDefined(g[name], vals)
    [] a = "reachingDefinitions" -> reachingTransfer(g, name, vals)
    [] a = "liveVars"            -> liveTransfer(g[name], vals)

preds(a, g, n) == IF isForward(a) THEN g[n].predecessors ELSE g[n].successors

\* mutant: the nodes re-queued after a change ignore the direction
succs_IgnoreDirection(a, g, n) == g[n].successors

succs(a, g, n) == IF isForward(a) THEN g[n].successors ELSE g[n].predecessors

\* the orders in which a HashSet of node names may be iterated
Orders(S) == {s \in [1..Cardinality(S) -> S] : SeqToSet(s) = S}

(***************************************************************************)
(* SpecDF: dfWorklist run, one worklist iteration per step, on the CFG     *)
(* of a small function: a leading block, a block A and a block B.          *)
(***************************************************************************)
MaxBody == 1

DfInstrs ==
  {Const("x", JNum(1), "int"), ValueOp("id", "c", <<"x">>, "int"),
   ValueOp("add", "x", <<"x", "c">>, "int"), EffectOp("print", <<"c">>)}

OptInstr == {<<>>} \cup {<<i>> : i \in DfInstrs}

DfBodies == UNION {[1..k -> DfInstrs] : k \in 0..MaxBody}

DfPrograms ==
  {pre \o t0 \o <<Label("A")>> \o body \o tA \o <<Label("B")>> \o post \o tB :
     pre \in OptInstr, post \in OptInstr, body \in DfBodies,
     t0 \in {<<>>, <<EffectOp("jmp", <<"B">>)>>},
     tA \in {<<>>, <<EffectOp("jmp", <<"A">>)>>,
             <<EffectOp("br", <<"c", "A", "B">>)>>,
             <<EffectOp("br", <<"c", "B", "A">>)>>},
     tB \in {<<>>, <<EffectOp("jmp", <<"A">>)>>, <<EffectOp("ret", <<>>)>>}}

InitDF ==
  /\ func \in DfPrograms
  /\ LET c == createFunctionCFG(func)
     IN  /\ ~c.err
         /\ cfg = c.cfg
         /\ nodeList = c.nodeList
  /\ pc = "built"
  /\ idx = 0
  /\ result = <<>>
  /\ doms = <<>>
  /\ loops = <<>>
  /\ bril = <<>>
  /\ DfIdle
  /\ RunIdle
  /\ IvIdle
  /\ HeapIdle
  /\ InterpIdle

\* dfWorklist(blocks, a) up to the loop: ins holds the first block only
DfCall(a, blocks) ==
  LET firstBlock == IF isForward(a) THEN blocks[1] ELSE blocks[Len(blocks)]
  IN  /\ analysis' = a
      /\ dfBlocks' = blocks
      /\ ins' = (firstBlock :> {})
      /\ outs' = [n \in SeqToSet(blocks) |-> {}]
      /\ worklist' = blocks

\* dfWorklist called with the node list createCFG returned
DfStart ==
  /\ pc = "built"
  /\ \E a \in Analyses : DfCall(a, nodeList)
  /\ pc' = "df"
  /\ UNCHANGED <<func, cfg, nodeList, idx, result, loopVars, bril, dfResult, runVars, iv, heapVars, run>>

\* mutant: a node whose out-set changed does not put its successors back
DfStep_NoRequeue ==
  /\ pc = "df"
  /\ worklist # <<>>
  /\ LET node    == Head(worklist)
         inEdges == preds(analysis, cfg, node)
     IN  IF ~(inEdges \subseteq DOMAIN outs)
         THEN /\ pc' = "dfError"
              /\ UNCHANGED <<ins, outs, worklist>>
         ELSE LET inVal  == setUnion({outs[p] : p \in inEdges})
                  outVal == transfer(analysis, cfg, node, inVal)
              IN  /\ ins' = [n \in DOMAIN ins \cup {node} |->
                               IF n = node THEN inVal ELSE ins[n]]
                  /\ IF outVal # outs[node]
                     THEN /\ outs' = [outs EXCEPT ![node] = outVal]
                          /\ worklist' = Tail(worklist)
                     ELSE /\ worklist' = Tail(worklist)
                          /\ UNCHANGED outs
                  /\ pc' = "df"
  /\ UNCHANGED <<func, cfg, nodeList, idx, result, loopVars, bril, analysis, dfResult, dfBlocks, runVars, iv, heapVars, run>>

\* mutant: a node whose out-set did not change stays at the head of the worklist
DfStep_NoShift ==
  /\ pc = "df"
  /\ worklist # <<>>
  /\ LET node    == Head(worklist)
         inEdges == preds(analysis, cfg, node)
     IN  IF ~(inEdges \subseteq DOMAIN outs)
         THEN /\ pc' = "dfError"
              /\ UNCHANGED <<ins, outs, worklist>>
         ELSE LET inVal  == setUnion({outs[p] : p \in inEdges})
                  outVal == transfer(analysis, cfg, node, inVal)
              IN  /\ ins' = [n \in DOMAIN ins \cup {node} |->
                               IF n = node THEN inVal ELSE ins[n]]
                  /\ IF outVal # outs[node]
                     THEN /\ outs' = [outs EXCEPT ![node] = outVal]
                          /\ \E ord \in Orders(succs(analysis, cfg, node)) :
                               worklist' = Tail(worklist) \o ord
                     ELSE /\ worklist' = worklist
                          /\ UNCHANGED outs
                  /\ pc' = "df"
  /\ UNCHANGED <<func, cfg, nodeList, idx, result, loopVars, bril, analysis, dfResult, dfBlocks, runVars, iv, heapVars, run>>

\* one iteration of the while loop
DfStep ==
  /\ pc = "df"
  /\ worklist # <<>>
  /\ LET node    == Head(worklist)
         inEdges == preds(analysis, cfg, node)
     IN  IF ~(inEdges \subseteq DOMAIN outs)
         THEN /\ pc' = "dfError"
              /\ UNCHANGED <<ins, outs, worklist>>
         ELSE LET inVal  == setUnion({outs[p] : p \in inEdges})
                  outVal == transfer(analysis, cfg, node, inVal)
              IN  /\ ins' = [n \in DOMAIN ins \cup {node} |->
                               IF n = node THEN inVal ELSE ins[n]]
                  /\ IF outVal # outs[node]
                     THEN /\ outs' = [outs EXCEPT ![node] = outVal]
                          /\ \E ord \in Orders(succs(analysis, cfg, node)) :
                               worklist' = Tail(worklist) \o ord
                     ELSE /\ worklist' = Tail(worklist)
                          /\ UNCHANGED outs
                  /\ pc' = "df"
  /\ UNCHANGED <<func, cfg, nodeList, idx, result, loopVars, bril, analysis, dfResult, dfBlocks, runVars, iv, heapVars, run>>

\* the return statement: a backward analysis swaps the two maps
DfReturn ==
  /\ pc = "df"
  /\ worklist = <<>>
  /\ dfResult' = IF isForward(analysis)
                 THEN [ins |-> ins, outs |-> outs]
                 ELSE [ins |-> outs, outs |-> ins]
  /\ pc' = "dfDone"
  /\ UNCHANGED <<func, cfg, nodeList, idx, result, loopVars, bril, analysis, ins, outs, worklist, dfBlocks, runVars, iv, heapVars, run>>

NextDF == DfStart \/ DfStep \/ DfReturn

SpecDF == InitDF /\ [][NextDF]_vars

\* C9: when dfWorklist returns, every node's in-set is the merge of the
\* out-sets of its predecessors (in the direction of the analysis) and its
\* out-set is the transfer of its in-set; for the backward liveVars the
\* returned ins hold the transfer result (live-in) and the returned outs the
\* union over the CFG successors (live-out).
C9_DataflowFixpoint ==
  pc = "dfDone" =>
    /\ DOMAIN dfResult.ins = Nodes /\ DOMAIN dfResult.outs = Nodes
    /\ \A n \in Nodes :
         IF isForward(analysis)
         THEN /\ dfResult.ins[n] = UNION {dfResult.outs[p] : p \in cfg[n].predecessors}
              /\ dfResult.outs[n] = transfer(analysis, cfg, n, dfResult.ins[n])
         ELSE /\ dfResult.outs[n] = UNION {dfResult.ins[s] : s \in cfg[n].successors}
              /\ dfResult.ins[n] = transfer(analysis, cfg, n, dfResult.outs[n])

\* a backward run over a loop has returned, with a variable live around it
C9_Witness ==
  /\ pc = "dfDone"
  /\ analysis = "liveVars"
  /\ \E n \in Nodes : n \in cfg[n].successors /\ dfResult.ins[n] # {} /\ dfResult.outs[n] # {}
  /\ \E n \in Nodes : dfResult.ins[n] # dfResult.outs[n]

(***************************************************************************)
(* The interpreter (brili) and its heap.  A Value is one record shape:     *)
(* kind "int" uses n, "bool" uses b, "ptr" uses base, off and type;        *)
(* Undef is the empty slot of a fresh allocation.                          *)
(***************************************************************************)
IntV(n) == [kind |-> "int", n |-> n, b |-> FALSE, base |-> 0, off |-> 0, type |-> "none"]

BoolV(b) == [kind |-> "bool", n |-> 0, b |-> b, base |-> 0, off |-> 0, type |-> "none"]

PtrV(base, off, t) == [kind |-> "ptr", n |-> 0, b |-> FALSE, base |-> base, off |-> off, type |-> t]

Undef == [kind |-> "undef", n |-> 0, b |-> FALSE, base |-> 0, off |-> 0, type |-> "none"]

PtrTypes == {"ptr<int>", "ptr<bool>", "ptr<ptr<int>>"}

\* Key.add
KeyAdd(p, offset) == PtrV(p.base, p.off + offset, p.type)

\* new Heap()
EmptyHeap == [storage |-> <<>>, count |-> 0]

\* isEmpty answering true whatever the storage holds
HeapIsEmpty_Always(h) == h.count >= 0

HeapIsEmpty(h) == DOMAIN h.storage = {}

\* mutant: the lowest base that is not live is handed out again
HeapAlloc_ReuseBase(h, amt) ==
  LET free == (0..h.count) \ DOMAIN h.storage
      base == CHOOSE b \in free : \A c \in free : b <= c
  IN  IF amt <= 0 THEN [err |-> TRUE, heap |-> h, base |-> 0]
      ELSE [err |-> FALSE, base |-> base,
            heap |-> [storage |-> [k \in DOMAIN h.storage \cup {base} |->
                                     IF k = base THEN [j \in 1..amt |-> Undef]
                                     ELSE h.storage[k]],
                      count |-> h.count + 1]]

HeapAlloc(h, amt) ==
  IF amt <= 0 THEN [err |-> TRUE, heap |-> h, base |-> 0]
  ELSE [err |-> FALSE, base |-> h.count,
        heap |-> [storage |-> [k \in DOMAIN h.storage \cup {h.count} |->
                                 IF k = h.count THEN [j \in 1..amt |-> Undef]
                                 ELSE h.storage[k]],
                  count |-> h.count + 1]]

\* mutant: the offset of the key is not looked at
HeapFree_AnyOffset(h, key) ==
  IF key.base \in DOMAIN h.storage
  THEN [err |-> FALSE,
        heap |-> [h EXCEPT !.storage = [k \in DOMAIN h.storage \ {key.base} |-> h.storage[k]]]]
  ELSE [err |-> TRUE, heap |-> h]

HeapFree(h, key) ==
  IF key.base \in DOMAIN h.storage /\ key.off = 0
  THEN [err |-> FALSE,
        heap |-> [h EXCEPT !.storage = [k \in DOMAIN h.storage \ {key.base} |-> h.storage[k]]]]
  ELSE [err |-> TRUE, heap |-> h]

HeapInBounds(h, key) ==
  /\ key.base \in DOMAIN h.storage
  /\ Len(h.storage[key.base]) > key.off
  /\ key.off >= 0

\* mutant: the value is not stored
HeapWrite_NoStore(h, key, val) ==
  IF HeapInBounds(h, key)
  THEN [err |-> FALSE, heap |-> h]
  ELSE [err |-> TRUE, heap |-> h]

HeapWrite(h, key, val) ==
  IF HeapInBounds(h, key)
  THEN [err |-> FALSE, heap |-> [h EXCEPT !.storage[key.base][key.off + 1] = val]]
  ELSE [err |-> TRUE, heap |-> h]

HeapRead(h, key) ==
  IF HeapInBounds(h, key)
  THEN [err |-> FALSE, val |-> h.storage[key.base][key.off + 1]]
  ELSE [err |-> TRUE, val |-> Undef]

argCounts ==
  [o \in {"add", "mul", "sub", "div", "lt", "le", "gt", "ge", "eq", "and", "or",
          "ptrlt", "ptrle", "ptrgt", "ptrge", "ptreq", "store", "ptradd"} |-> 2]
  @@ [o \in {"id", "not", "jmp", "alloc", "free", "load"} |-> 1]
  @@ [o \in {"ret", "nop"} |-> 0]
  @@ [o \in {"br"} |-> 3]
  @@ [o \in {"print"} |-> -1]

\* BigInt division truncates toward zero
BigIntDiv(a, b) ==
  LET q == (IF a < 0 THEN -a ELSE a) \div (IF b < 0 THEN -b ELSE b)
  IN  IF (a < 0) # (b < 0) THEN -q ELSE q

\* Value.toString as print shows it
valueToString(v) ==
  CASE v.kind = "int"  -> (IF v.n < 0 THEN "-" \o ToString(-v.n) ELSE ToString(v.n))
    [] v.kind = "bool" -> (IF v.b THEN "true" ELSE "false")
    [] OTHER           -> "[object Object]"

isIntArg(env, a) == a \in DOMAIN env /\ env[a].kind = "int"

isBoolArg(env, a) == a \in DOMAIN env /\ env[a].kind = "bool"

isPtrArg(env, a) == a \in DOMAIN env /\ env[a].kind = "ptr"

envSet(env, d, v) == [x \in DOMAIN env \cup {d} |-> IF x = d THEN v ELSE env[x]]

\* the results of evalInstr
Throw(env, heap) == [action |-> "throw", label |-> NoDest, env |-> env, heap |-> heap, out |-> <<>>]

Next1(env, heap) == [action |-> "next", label |-> NoDest, env |-> env, heap |-> heap, out |-> <<>>]

IntOps == {"add", "mul", "sub", "div", "lt", "le", "gt", "ge", "eq"}

PtrCmpOps == {"ptrlt", "ptrle", "ptrgt", "ptrge", "ptreq"}

\* add .. eq on two BigInt arguments; div by zero raises a RangeError
evalIntOp(instr, env, heap) ==
  LET a1 == instr.args[1]
      a2 == instr.args[2]
  IN  IF ~(isIntArg(env, a1) /\ isIntArg(env, a2)) THEN Throw(env, heap)
      ELSE LET x == env[a1].n
               y == env[a2].n
           IN  CASE instr.op = "add" -> Next1(envSet(env, instr.dest, IntV(x + y)), heap)
                 [] instr.op = "mul" -> Next1(envSet(env, instr.dest, IntV(x * y)), heap)
                 [] instr.op = "sub" -> Next1(envSet(env, instr.dest, IntV(x - y)), heap)
                 [] instr.op = "div" -> IF y = 0 THEN Throw(env, heap)
                                        ELSE Next1(envSet(env, instr.dest, IntV(BigIntDiv(x, y))), heap)
                 [] instr.op = "lt"  -> Next1(envSet(env, instr.dest, BoolV(x < y)), heap)
                 [] instr.op = "le"  -> Next1(envSet(env, instr.dest, BoolV(x <= y)), heap)
                 [] instr.op = "gt"  -> Next1(envSet(env, instr.dest, BoolV(x > y)), heap)
                 [] instr.op = "ge"  -> Next1(envSet(env, instr.dest, BoolV(x >= y)), heap)
                 [] instr.op = "eq"  -> Next1(envSet(env, instr.dest, BoolV(x = y)), heap)

\* ptrlt .. ptreq: Key.checkbase throws on different allocations
evalPtrCmp(instr, env, heap) ==
  LET a1 == instr.args[1]
      a2 == instr.args[2]
  IN  IF ~(isPtrArg(env, a1) /\ isPtrArg(env, a2)) THEN Throw(env, heap)
      ELSE IF env[a1].base # env[a2].base THEN Throw(env, heap)
      ELSE LET x == env[a1].off
               y == env[a2].off
           IN  Next1(envSet(env, instr.dest,
                       BoolV(CASE instr.op = "ptrlt" -> x < y
                               [] instr.op = "ptrle" -> x <= y
                               [] instr.op = "ptrgt" -> x > y
                               [] instr.op = "ptrge" -> x >= y
                               [] instr.op = "ptreq" -> x = y)), heap)

\* not, and, or; && and || do not evaluate their right operand when the
\* left one decides
evalBoolOp(instr, env, heap) ==
  LET a1 == instr.args[1]
  IN  IF ~isBoolArg(env, a1) THEN Throw(env, heap)
      ELSE IF instr.op = "not" THEN Next1(envSet(env, instr.dest, BoolV(~env[a1].b)), heap)
      ELSE IF instr.op = "and" /\ ~env[a1].b THEN Next1(envSet(env, instr.dest, BoolV(FALSE)), heap)
      ELSE IF instr.op = "or" /\ env[a1].b THEN Next1(envSet(env, instr.dest, BoolV(TRUE)), heap)
      ELSE IF ~isBoolArg(env, instr.args[2]) THEN Throw(env, heap)
      ELSE Next1(envSet(env, instr.dest, BoolV(env[instr.args[2]].b)), heap)

\* alloc, free, store, load, ptradd
evalMemOp(instr, env, heap) ==
  LET a1 == instr.args[1]
  IN  CASE instr.op = "alloc" ->
             IF ~isIntArg(env, a1) \/ instr.type \notin PtrTypes \/ env[a1].n <= 0
             THEN Throw(env, heap)
             ELSE LET r == HeapAlloc(heap, env[a1].n)
                      dataType == IF instr.type = "ptr<int>" THEN "int"
                                  ELSE IF instr.type = "ptr<bool>" THEN "bool" ELSE "ptr"
                  IN  IF r.err THEN Throw(env, heap)
                      ELSE Next1(envSet(env, instr.dest, PtrV(r.base, 0, dataType)), r.heap)
        [] instr.op = "free" ->
             IF ~isPtrArg(env, a1) THEN Throw(env, heap)
             ELSE LET r == HeapFree(heap, env[a1])
                  IN  IF r.err THEN Throw(env, heap) ELSE Next1(env, r.heap)
        [] instr.op = "store" ->
             IF ~isPtrArg(env, a1) THEN Throw(env, heap)
             ELSE LET target == env[a1]
                      a2 == instr.args[2]
                  IN  IF target.type \notin {"int", "bool", "ptr"} THEN Next1(env, heap)
                      ELSE IF ~(a2 \in DOMAIN env /\ env[a2].kind = target.type)
                      THEN Throw(env, heap)
                      ELSE LET r == HeapWrite(heap, target, env[a2])
                           IN  IF r.err THEN Throw(env, heap) ELSE Next1(env, r.heap)
        [] instr.op = "load" ->
             IF ~isPtrArg(env, a1) THEN Throw(env, heap)
             ELSE LET r == HeapRead(heap, env[a1])
                  IN  IF r.err \/ r.val.kind = "undef" THEN Throw(env, heap)
                      ELSE Next1(envSet(env, instr.dest, r.val), heap)
        [] instr.op = "ptradd" ->
             IF ~isPtrArg(env, a1) \/ ~isIntArg(env, instr.args[2]) THEN Throw(env, heap)
             ELSE Next1(envSet(env, instr.dest, KeyAdd(env[a1], env[instr.args[2]].n)), heap)

evalInstr(instr, env, heap) ==
  IF instr.op = "const"
  THEN Next1(envSet(env, instr.dest,
                    IF instr.value.isNum THEN IntV(instr.value.num) ELSE BoolV(instr.value.bool)),
             heap)
  ELSE IF instr.op \notin DOMAIN argCounts THEN Throw(env, heap)
  ELSE IF argCounts[instr.op] # -1 /\ Len(instr.args) # argCounts[instr.op] THEN Throw(env, heap)
  ELSE CASE instr.op = "id" ->
              IF instr.args[1] \in DOMAIN env
              THEN Next1(envSet(env, instr.dest, env[instr.args[1]]), heap)
              ELSE Throw(env, heap)
         [] instr.op \in IntOps -> evalIntOp(instr, env, heap)
         [] instr.op \in PtrCmpOps -> evalPtrCmp(instr, env, heap)
         [] instr.op \in {"not", "and", "or"} -> evalBoolOp(instr, env, heap)
         [] instr.op = "print" ->
              IF SeqToSet(instr.args) \subseteq DOMAIN env
              THEN [Next1(env, heap) EXCEPT
                      !.out = <<[k \in 1..Len(instr.args) |-> valueToString(env[instr.args[k]])]>>]
              ELSE Throw(env, heap)
         [] instr.op = "jmp" -> [Next1(env, heap) EXCEPT !.action = "label", !.label = instr.args[1]]
         [] instr.op = "br" ->
              IF ~isBoolArg(env, instr.args[1]) THEN Throw(env, heap)
              ELSE [Next1(env, heap) EXCEPT
                      !.action = "label",
                      !.label = IF env[instr.args[1]].b THEN instr.args[2] ELSE instr.args[3]]
         [] instr.op = "ret" -> [Next1(env, heap) EXCEPT !.action = "end"]
         [] instr.op = "nop" -> Next1(env, heap)
         [] OTHER -> evalMemOp(instr, env, heap)

\* the longest run the model follows; a longer run is left "running"
MaxSteps == 40

\* the index of the first label item named l, 0 when there is none
findLabel(instrs, l) ==
  LET hits == {j \in 1..Len(instrs) : IsLabel(instrs[j]) /\ instrs[j].args[1] = l}
  IN  IF hits = {} THEN 0 ELSE CHOOSE j \in hits : \A h \in hits : j <= h

RECURSIVE evalFuncFrom(_, _, _, _, _, _)
evalFuncFrom(instrs, k, env, heap, out, count) ==
  LET \* the switch on the Action r that evalInstr returned
      evalAction(r) ==
        CASE r.action = "throw" ->
               [status |-> "error", heap |-> r.heap, out |-> out, instructionCount |-> count + 1]
          [] r.action = "end" ->
               [status |-> "returned", heap |-> r.heap, out |-> out,
                instructionCount |-> count + 1]
          [] r.action = "label" ->
               IF findLabel(instrs, r.label) = 0
               THEN [status |-> "error", heap |-> r.heap, out |-> out,
                     instructionCount |-> count + 1]
               ELSE evalFuncFrom(instrs, findLabel(instrs, r.label) + 1, r.env, r.heap, out,
                                 count + 1)
          [] r.action = "next" ->
               evalFuncFrom(instrs, k + 1, r.env, r.heap, out \o r.out, count + 1)
  IN  IF k > Len(instrs)
      THEN [status |-> "returned", heap |-> heap, out |-> out, instructionCount |-> count]
      ELSE IF count >= MaxSteps
      THEN [status |-> "running", heap |-> heap, out |-> out, instructionCount |-> count]
      ELSE IF IsLabel(instrs[k])
      THEN evalFuncFrom(instrs, k + 1, env, heap, out, count + 1)
      ELSE evalAction(evalInstr(instrs[k], env, heap))

evalFunc(instrs, heap) == evalFuncFrom(instrs, 1, <<>>, heap, <<>>, 0)

\* evalProg on a program whose only function is main: the print output and
\* how the run ended ("ok", "error", or "running" past MaxSteps); the
\* returned instructionCount is the outer result, which stays -1
evalProg(instrs) ==
  LET \* after evalFunc has returned r
      progResult(r) ==
        [status |-> IF r.status = "returned"
                    THEN (IF HeapIsEmpty(r.heap) THEN "ok" ELSE "error")
                    ELSE r.status,
         out |-> r.out,
         instructionCount |-> -1]
  IN  progResult(evalFunc(instrs, EmptyHeap))

(***************************************************************************)
(* dfWorklist as a function of the CFG.  The order in which re-queued      *)
(* successors are visited does not change the maps it returns (the run is  *)
(* explored for every order in SpecDF), so one order is followed here.     *)
(***************************************************************************)
RECURSIVE dfLoop(_, _, _, _, _)
dfLoop(a, g, i, o, wl) ==
  LET \* ins.put, the comparison with outs and the pushes, once outVal is computed
      dfUpdate(inVal, outVal) ==
        IF outVal # o[Head(wl)]
        THEN dfLoop(a, g,
                    [n \in DOMAIN i \cup {Head(wl)} |-> IF n = Head(wl) THEN inVal ELSE i[n]],
                    [o EXCEPT ![Head(wl)] = outVal],
                    Tail(wl) \o SetToSeq(succs(a, g, Head(wl))))
        ELSE dfLoop(a, g,
                    [n \in DOMAIN i \cup {Head(wl)} |-> IF n = Head(wl) THEN inVal ELSE i[n]],
                    o, Tail(wl))
      dfVisit(inVal) == dfUpdate(inVal, transfer(a, g, Head(wl), inVal))
  IN  IF wl = <<>> THEN [ins |-> i, outs |-> o]
      ELSE dfVisit(setUnion({o[p] : p \in preds(a, g, Head(wl))}))

dfWorklist(a, g, blocks) ==
  LET \* the return statement
      dfReturn(r) == IF isForward(a) THEN r ELSE [ins |-> r.outs, outs |-> r.ins]
  IN  dfReturn(dfLoop(a, g, ((IF isForward(a) THEN blocks[1] ELSE blocks[Len(blocks)]) :> {}),
                      [n \in SeqToSet(blocks) |-> {}], blocks))

(***************************************************************************)
(* Dead code elimination (bril-opt.ts).                                    *)
(***************************************************************************)
\* the first loop of eliminateKilledLocals; indices are 1-based here
RECURSIVE killedScan(_, _, _, _)
killedScan(instrs, k, toDrop, lastDef) ==
  IF k > Len(instrs) THEN [toDrop |-> toDrop, lastDef |-> lastDef]
  ELSE LET i  == instrs[k]
           l1 == IF isOperation(i)
                 THEN [v \in DOMAIN lastDef \ SeqToSet(i.args) |-> lastDef[v]]
                 ELSE lastDef
       IN  IF isValueInstruction(i)
           THEN killedScan(instrs, k + 1,
                           IF i.dest \in DOMAIN l1 THEN toDrop \cup {l1[i.dest]} ELSE toDrop,
                           [v \in DOMAIN l1 \cup {i.dest} |-> IF v = i.dest THEN k ELSE l1[v]])
           ELSE killedScan(instrs, k + 1, toDrop, l1)

\* mutant: only the value instructions that are not dropped are pushed
keptInstrs_ValueOnly(instrs, toDrop) ==
  LET keep == {k \in 1..Len(instrs) : isValueInstruction(instrs[k]) /\ k \notin toDrop}
      F[k \in 0..Len(instrs)] ==
        IF k = 0 THEN <<>>
        ELSE IF k \in keep THEN Append(F[k - 1], instrs[k]) ELSE F[k - 1]
  IN  F[Len(instrs)]

\* the instructions eliminateKilledLocals keeps
keptInstrs(instrs, toDrop) ==
  LET keep == {k \in 1..Len(instrs) : ~isValueInstruction(instrs[k]) \/ k \notin toDrop}
      F[k \in 0..Len(instrs)] ==
        IF k = 0 THEN <<>>
        ELSE IF k \in keep THEN Append(F[k - 1], instrs[k]) ELSE F[k - 1]
  IN  F[Len(instrs)]

\* mutant: only the writes overwritten before being read are dropped
eliminateKilledLocals_OverwrittenOnly(node, liveOuts) ==
  LET s   == killedScan(node.instrs, 1, {}, <<>>)
      res == keptInstrs(node.instrs, s.toDrop)
  IN  [instrs |-> res, changed |-> Len(res) # Len(node.instrs)]

eliminateKilledLocals(node, liveOuts) ==
  LET s        == killedScan(node.instrs, 1, {}, <<>>)
      termArgs == SeqToSet(node.termInstr.args)
      toDrop   == s.toDrop \cup
                    {s.lastDef[v] : v \in {w \in DOMAIN s.lastDef : w \notin termArgs /\ w \notin liveOuts}}
      res      == keptInstrs(node.instrs, toDrop)
  IN  [instrs |-> res, changed |-> Len(res) # Len(node.instrs)]

\* mutant: each node's result overwrites the flag
orChanged_Overwrite(changed, newChange) == newChange

\* changed = changed || newChange
orChanged(changed, newChange) == changed \/ newChange

\* the for loop of one round, over the live variables computed before it
RECURSIVE dceNodes(_, _, _, _, _)
dceNodes(g, nodes, k, liveNodes, changed) ==
  IF k > Len(nodes) THEN [g |-> g, changed |-> changed]
  ELSE LET r == eliminateKilledLocals(g[nodes[k]], liveNodes.outs[nodes[k]])
       IN  dceNodes(setInstrs(g, nodes[k], r.instrs), nodes, k + 1, liveNodes,
                    orChanged(changed, r.changed))

\* one iteration of the while loop of eliminateDeadCode
dceRound(g, nodes) == dceNodes(g, nodes, 1, dfWorklist("liveVars", g, nodes), FALSE)

RECURSIVE eliminateDeadCode(_, _)
eliminateDeadCode(g, nodes) ==
  LET r == dceRound(g, nodes)
  IN  IF r.changed THEN eliminateDeadCode(r.g, nodes) ELSE r.g

(***************************************************************************)
(* SpecDCE: the dce pass of the optimizer (createFunctionCFG, then         *)
(* eliminateDeadCode one round per step, then cfgToBril), followed by the  *)
(* interpreter run of the function as given and as optimized.              *)
(***************************************************************************)
MaxDceLen == 3

DceInstrs ==
  {Const("x", JNum(1), "int"), Const("z", JNum(0), "int"),
   ValueOp("id", "y", <<"x">>, "int"), ValueOp("div", "y", <<"x", "z">>, "int"),
   ValueOp("alloc", "p", <<"x">>, "ptr<int>"), ValueOp("load", "y", <<"p">>, "int"),
   ValueOp("id", "y", <<"u">>, "int"),
   EffectOp("print", <<"y">>), EffectOp("free", <<"p">>)}

\* what follows the leading instructions: nothing, a second block, or a loop
DceTails ==
  {<<>>,
   <<Label("A"), EffectOp("print", <<"x">>)>>,
   <<Const("c", JBool(FALSE), "bool"), Label("A"), ValueOp("id", "y", <<"x">>, "int"),
     EffectOp("br", <<"c", "A", "B">>), Label("B"), EffectOp("print", <<"y">>)>>}

DcePrograms ==
  {pre \o tail : pre \in UNION {[1..k -> DceInstrs] : k \in 0..MaxDceLen}, tail \in DceTails}

InitDCE ==
  /\ func \in DcePrograms
  /\ pc = "start"
  /\ cfg = <<>>
  /\ nodeList = <<>>
  /\ idx = 0
  /\ result = <<>>
  /\ doms = <<>>
  /\ loops = <<>>
  /\ bril = <<>>
  /\ DfIdle
  /\ RunIdle
  /\ IvIdle
  /\ HeapIdle
  /\ InterpIdle

\* optimize: createFunctionCFG
DceCreateCFG ==
  /\ pc = "start"
  /\ LET c == createFunctionCFG(func)
     IN  IF c.err
         THEN /\ pc' = "error"
              /\ UNCHANGED <<cfg, nodeList>>
         ELSE /\ cfg' = c.cfg
              /\ nodeList' = c.nodeList
              /\ pc' = "dce"
  /\ UNCHANGED <<func, idx, result, loopVars, bril, dfVars, runVars, iv, heapVars, run>>

\* eliminateDeadCode: one iteration of the while loop; idx counts them
DceRound ==
  /\ pc = "dce"
  /\ LET r == dceRound(cfg, nodeList)
     IN  /\ cfg' = r.g
         /\ pc' = IF r.changed THEN "dce" ELSE "dceDone"
  /\ idx' = idx + 1
  /\ UNCHANGED <<func, nodeList, result, loopVars, bril, dfVars, runVars, iv, heapVars, run>>

\* optimize: cfgToBril replaces the function's instructions
DceCfgToBril ==
  /\ pc = "dceDone"
  /\ bril' = cfgToBril(cfg, nodeList)
  /\ pc' = "serialized"
  /\ UNCHANGED <<func, cfg, nodeList, idx, result, loopVars, dfVars, runVars, iv, heapVars, run>>

\* brili on the function as given and on the optimized function
Interpret ==
  /\ pc = "serialized"
  /\ runP' = evalProg(func)
  /\ runQ' = evalProg(bril)
  /\ pc' = "ran"
  /\ UNCHANGED <<func, cfg, nodeList, idx, result, loopVars, bril, dfVars, iv, heapVars, run>>

NextDCE == DceCreateCFG \/ DceRound \/ DceCfgToBril \/ Interpret

SpecDCE == InitDCE /\ [][NextDCE]_vars

C10_DceIdempotent ==
  pc = "dceDone" => eliminateDeadCode(cfg, nodeList) = cfg

\* eliminateDeadCode returned after removing instructions in two rounds
C10_Witness ==
  /\ pc = "dceDone"
  /\ idx >= 3
  /\ \E n \in Nodes : cfg[n].instrs # <<>>

(***************************************************************************)
(* The induction-variable pass (bril-induction-var-elim.ts).  A loop is    *)
(* the set of its block names; an Ind_var_opt is [op, arg, kids] with      *)
(* kids = <<>> where arg is a variable name and arg = NoDest where the     *)
(* source holds the two sub-expressions.                                   *)
(***************************************************************************)
\* bril.isConstant: the instruction is a const instruction
isConstant(i) == i.op = "const"

getInstructionAt(g, d) == g[d.block].instrs[d.index + 1]

is_loop_invariant(g, var_name, loop, reaching_definitions) ==
  LET defs == UNION {{d \in reaching_definitions.ins[b] :
                        d.varName = var_name /\ d.block \in loop} : b \in loop}
  IN  IF defs # {}
      THEN /\ Cardinality(defs) = 1
           /\ LET d == CHOOSE e \in defs : TRUE
              IN  /\ d.index + 1 <= Len(g[d.block].instrs)
                  /\ isConstant(getInstructionAt(g, d))
      ELSE TRUE

\* every definition inside the loop
loopDefinitions(g, loop) ==
  UNION {{Definition(g[b].instrs[k].dest, b, k - 1) :
            k \in {j \in 1..Len(g[b].instrs) : isValueInstruction(g[b].instrs[j])}} : b \in loop}

\* getLoopDefinitions, kept to the variables whose set of definitions is single()
getLoopDefinitions(g, loop) ==
  LET all == loopDefinitions(g, loop)
  IN  {d \in all : \A e \in all : e.varName = d.varName => e = d}

OptLeaf(op, v) == [op |-> op, arg |-> v, kids |-> <<>>]

OptNode(op, l, r) == [op |-> op, arg |-> NoDest, kids |-> <<l, r>>]

\* Option.none() as a descriptor
NoOpt == OptLeaf("none", NoDest)

induction_variable(v, a, b) == [var_name |-> v, a |-> a, b |-> b]

\* indexOf, 1-based, 0 when absent
indexOf(s, x) ==
  LET hits == {k \in 1..Len(s) : s[k] = x}
  IN  IF hits = {} THEN 0 ELSE CHOOSE k \in hits : \A h \in hits : k <= h

\* args.slice(0, k).concat(args.slice(k + 1))
removeAt(s, k) == [j \in 1..(Len(s) - 1) |-> IF j < k THEN s[j] ELSE s[j + 1]]

isBasic(g, instr, loop, reaching_definitions) ==
  /\ instr.op \in {"add", "ptradd"}
  /\ indexOf(instr.args, instr.dest) # 0
  /\ \A arg \in SeqToSet(removeAt(instr.args, indexOf(instr.args, instr.dest))) :
       is_loop_invariant(g, arg, loop, reaching_definitions)

get_basic_induction_vars(g, loop, reaching_definitions) ==
  LET \* the entry put for the instruction instr
      basicEntry(instr) ==
        [instr |-> instr,
         ind_var |-> induction_variable(instr.dest,
                       OptLeaf(IF instr.op = "add" THEN "const" ELSE "ptrconst",
                               removeAt(instr.args, indexOf(instr.args, instr.dest))[1]),
                       NoOpt)]
      \* the map, from the loop definitions that qualify
      basicOf(found) ==
        [v \in {d.varName : d \in found} |->
           basicEntry(getInstructionAt(g, CHOOSE d \in found : d.varName = v))]
  IN  basicOf({d \in getLoopDefinitions(g, loop) :
                 isBasic(g, getInstructionAt(g, d), loop, reaching_definitions)})

\* the argument positions at which extract_derived_ind_var returns
derivedAt(g, instr, basic_ind_vars, loop, reaching_definitions) ==
  {i \in 1..Len(instr.args) :
     /\ instr.args[i] \in DOMAIN basic_ind_vars
     /\ basic_ind_vars[instr.args[i]].ind_var.var_name # instr.dest
     /\ 3 - i \in 1..Len(instr.args)
     /\ is_loop_invariant(g, instr.args[3 - i], loop, reaching_definitions)}

extract_derived_ind_var(g, instr, basic_ind_vars, loop, reaching_definitions) ==
  LET \* the two return statements inside the loop over the arguments
      derivedFrom(basic_ind_var, arg, other_arg) ==
        IF instr.op = "mul"
        THEN [isSome |-> TRUE,
              ind_var |-> induction_variable(arg,
                 OptNode("mul", OptLeaf("const", other_arg), basic_ind_var.a),
                 IF basic_ind_var.b = NoOpt THEN NoOpt
                 ELSE OptNode("mul", OptLeaf("const", other_arg), basic_ind_var.b))]
        ELSE [isSome |-> TRUE,
              ind_var |-> induction_variable(arg, basic_ind_var.a,
                 IF basic_ind_var.b = NoOpt THEN OptLeaf("const", other_arg)
                 ELSE OptNode("add", OptLeaf("const", other_arg), basic_ind_var.b))]
      \* the loop over the arguments, at being the positions where it can return
      extractAt(at) ==
        IF at = {} THEN [isSome |-> FALSE, ind_var |-> induction_variable(NoDest, NoOpt, NoOpt)]
        ELSE derivedFrom(
               basic_ind_vars[instr.args[CHOOSE k \in at : \A h \in at : k <= h]].ind_var,
               instr.args[CHOOSE k \in at : \A h \in at : k <= h],
               instr.args[3 - (CHOOSE k \in at : \A h \in at : k <= h)])
  IN  extractAt(IF instr.op \in {"add", "mul", "ptradd"}
                THEN derivedAt(g, instr, basic_ind_vars, loop, reaching_definitions) ELSE {})

get_derived_induction_variables(g, basic_ind_vars, loop, reaching_definitions) ==
  LET \* the map, from what extract_derived_ind_var returned for each definition
      derivedOf(ex) ==
        [v \in {d.varName : d \in {e \in DOMAIN ex : ex[e].isSome}} |->
           [instr |-> getInstructionAt(g, CHOOSE d \in DOMAIN ex : ex[d].isSome /\ d.varName = v),
            ind_var |-> ex[CHOOSE d \in DOMAIN ex : ex[d].isSome /\ d.varName = v].ind_var]]
  IN  derivedOf([d \in getLoopDefinitions(g, loop) |->
                   extract_derived_ind_var(g, getInstructionAt(g, d), basic_ind_vars,
                                           loop, reaching_definitions)])

\* one call of the closure fresh_vars returns, from counter value n
RECURSIVE gen_fresh_vars(_, _)
gen_fresh_vars(existing, n) ==
  IF ("__" \o ToString(n)) \in existing THEN gen_fresh_vars(existing, n + 1)
  ELSE [name |-> "__" \o ToString(n), n |-> n + 1]

RECURSIVE gen_instrs_from_ind_var_opt(_, _, _)
gen_instrs_from_ind_var_opt(opt, existing, n) ==
  LET genNode(left, right, tmp) ==
        [dest |-> tmp.name,
         instrs |-> left.instrs \o right.instrs
                      \o <<ValueOp(opt.op, tmp.name, <<left.dest, right.dest>>, "int")>>,
         n |-> tmp.n]
      genRight(left, right) == genNode(left, right, gen_fresh_vars(existing, right.n))
      genLeft(left) ==
        genRight(left, gen_instrs_from_ind_var_opt(opt.kids[2], existing, left.n))
  IN  IF opt.kids = <<>> THEN [dest |-> opt.arg, instrs |-> <<>>, n |-> n]
      ELSE genLeft(gen_instrs_from_ind_var_opt(opt.kids[1], existing, n))

kindType(is_ptr) == IF is_ptr THEN "ptr<int>" ELSE "int"

kindAdd(is_ptr) == IF is_ptr THEN "ptradd" ELSE "add"

\* the rewrite strength_reduction applies to one block's instructions
reduceInstrs(instrs, is_ptr, dest, var_name, tmp_var, a_var) ==
  LET F[k \in 0..Len(instrs)] ==
        IF k = 0 THEN <<>>
        ELSE IF isValueInstruction(instrs[k]) /\ instrs[k].dest = dest
        THEN Append(F[k - 1], ValueOp("id", dest, <<tmp_var>>, kindType(is_ptr)))
        ELSE IF isValueInstruction(instrs[k]) /\ instrs[k].dest = var_name
        THEN F[k - 1] \o <<instrs[k],
                            ValueOp(kindAdd(is_ptr), tmp_var, <<tmp_var, a_var>>, kindType(is_ptr))>>
        ELSE Append(F[k - 1], instrs[k])
  IN  F[Len(instrs)]

\* strength_reduction's loop over the blocks of the loop
reduceBlocks(g, loop, is_ptr, dest, var_name, tmp_var, a_var) ==
  [b \in DOMAIN g |->
     IF b \in loop
     THEN [g[b] EXCEPT !.instrs = reduceInstrs(g[b].instrs, is_ptr, dest, var_name, tmp_var, a_var)]
     ELSE g[b]]

strength_reduction(g, is_ptr, dest, existing, n, ind_var, loop, loop_header) ==
  LET \* the pre-header instructions, the loop over the blocks and the return
      reduceWith(a, tmp, b, tmp2) ==
        [g |-> reduceBlocks(
                 setInstrs(g, loop_header,
                   IF ind_var.b = NoOpt
                   THEN g[loop_header].instrs \o a.instrs
                          \o <<ValueOp("mul", tmp.name, <<ind_var.var_name, a.dest>>, "int")>>
                   ELSE g[loop_header].instrs \o a.instrs \o b.instrs \o a.instrs
                          \o <<ValueOp("mul", tmp2.name, <<ind_var.var_name, a.dest>>, "int"),
                               ValueOp(kindAdd(is_ptr), tmp.name, <<b.dest, tmp2.name>>,
                                       kindType(is_ptr))>>),
                 loop, is_ptr, dest, ind_var.var_name, tmp.name, a.dest),
         a_var |-> a.dest,
         b_var |-> IF ind_var.b = NoOpt THEN NoDest ELSE b.dest,
         tmp_var |-> tmp.name,
         n |-> IF ind_var.b = NoOpt THEN tmp.n ELSE tmp2.n]
      \* tmp_var_2
      reduceWithB(a, tmp, b) == reduceWith(a, tmp, b, gen_fresh_vars(existing, b.n))
      \* b_var, b_instrs
      reduceWithTmp(a, tmp) ==
        reduceWithB(a, tmp, gen_instrs_from_ind_var_opt(ind_var.b, existing, tmp.n))
      \* tmp_var
      reduceWithA(a) == reduceWithTmp(a, gen_fresh_vars(existing, a.n))
  IN  reduceWithA(gen_instrs_from_ind_var_opt(ind_var.a, existing, n))

\* replace_ind_vars on the instructions of one block from position k on;
\* p holds the arguments of replace_ind_vars, st = [result_instrs,
\* header_instrs, n] the rewritten block, the pre-header and the counter
RECURSIVE replaceInstrs(_, _, _, _, _)
replaceInstrs(g, instrs, k, p, st) ==
  LET \* mul_instr, add_instr and new_comp for the comparison instr with bound n
      replaceComparison(instr, n, mul_var, add_var) ==
        [result_instrs |->
           Append(st.result_instrs,
                  ValueOp(IF p.is_ptr THEN "ptrlt" ELSE "lt", instr.dest,
                          <<p.derived_var,
                            IF p.b_var # NoDest THEN add_var.name ELSE mul_var.name>>,
                          "bool")),
         header_instrs |->
           st.header_instrs
             \o (IF p.b_var # NoDest
                 THEN <<ValueOp("mul", mul_var.name, <<n, p.a_var>>, "int"),
                        ValueOp(kindAdd(p.is_ptr), add_var.name, <<p.b_var, mul_var.name>>,
                                kindType(p.is_ptr))>>
                 ELSE <<ValueOp("mul", mul_var.name, <<n, p.a_var>>, "int")>>),
         n |-> IF p.b_var # NoDest THEN add_var.n ELSE mul_var.n]
      \* add_var
      replaceFresh(instr, n, mul_var) ==
        replaceComparison(instr, n, mul_var, gen_fresh_vars(p.existing, mul_var.n))
      \* one instruction, the basic variable being its argument number at (0: none)
      replaceInstr(instr, at) ==
        IF /\ instr.op = "lt"
           /\ at # 0
           /\ 3 - at \in 1..Len(instr.args)
           /\ is_loop_invariant(g, instr.args[3 - at], p.loop, p.reaching_definitions)
        THEN replaceFresh(instr, instr.args[3 - at], gen_fresh_vars(p.existing, st.n))
        ELSE [st EXCEPT !.result_instrs = Append(@, instr)]
  IN  IF k > Len(instrs) THEN st
      ELSE replaceInstrs(g, instrs, k + 1, p,
             replaceInstr(instrs[k], indexOf(instrs[k].args, p.basic_var)))

\* replace_ind_vars' loop over the blocks of the loop, in the order blocks
RECURSIVE replaceBlocks(_, _, _, _, _, _)
replaceBlocks(g0, g, blocks, k, p, st) ==
  LET \* block.setInstrs(result_instrs), then the next block
      replaceNext(r) ==
        replaceBlocks(g0, setInstrs(g, blocks[k], r.result_instrs), blocks, k + 1, p, r)
  IN  IF k > Len(blocks) THEN [g |-> setInstrs(g, p.loop_header, st.header_instrs), n |-> st.n]
      ELSE replaceNext(replaceInstrs(g0, g0[blocks[k]].instrs, 1, p,
                                     [st EXCEPT !.result_instrs = <<>>]))

replace_ind_vars(g, p, n) ==
  replaceBlocks(g, g, SetToSeq(p.loop), 1, p,
                [result_instrs |-> <<>>, header_instrs |-> g[p.loop_header].instrs, n |-> n])

RECURSIVE addHeaderEach(_, _, _, _, _)
addHeaderEach(g, entry, preHeader, backEdgeNodes, ps) ==
  IF ps = <<>> THEN g
  ELSE addHeaderEach(IF Head(ps) \notin backEdgeNodes
                     THEN replaceEdgeTo(g, Head(ps), entry, preHeader) ELSE g,
                     entry, preHeader, backEdgeNodes, Tail(ps))

addHeader(g, entry, preHeader, backEdgeNodes) ==
  addHeaderEach(g, entry, preHeader, backEdgeNodes, SetToSeq(g[entry].predecessors))

\* getUses, the reaching-uses query within the loop: the places in the
\* given blocks whose instruction reads varName, as Definition-shaped values
getUses(g, varName, blocks) ==
  UNION {{Definition(varName, b, k - 1) :
            k \in {j \in 1..Len(g[b].instrs) :
                     isOperation(g[b].instrs[j]) /\ varName \in SeqToSet(g[b].instrs[j].args)}} :
         b \in blocks}

getLoopLiveOuts(g, prog, loop) ==
  LET \* loopSucc and loopOuts
      liveOutsOf(lives) ==
        UNION {lives.ins[b] : b \in UNION {g[c].successors \ loop : c \in loop}}
  IN  liveOutsOf(dfWorklist("liveVars", g, prog))

canElimVariableDefintion(g, prog, varName, loop, loopDefs) ==
  LET usesAreDef(def, uses) ==
        /\ Cardinality(def) = 1
        /\ Cardinality(uses) = 1
        /\ uses = def
  IN  /\ varName \notin getLoopLiveOuts(g, prog, loop)
      /\ usesAreDef({d \in loopDefs : d.varName = varName}, getUses(g, varName, loop))

\* the instructions of a block without the definitions of ind_var
dropDefinitions(instrs, ind_var) ==
  LET F[k \in 0..Len(instrs)] ==
        IF k = 0 THEN <<>>
        ELSE IF isValueInstruction(instrs[k]) /\ instrs[k].dest = ind_var THEN F[k - 1]
        ELSE Append(F[k - 1], instrs[k])
  IN  F[Len(instrs)]

\* the last loop of eliminateInductionVars' body, over replaced_basic_vars
RECURSIVE elimVars(_, _, _, _, _)
elimVars(g, prog, todo, loop, loop_defs) ==
  IF todo = <<>> THEN g
  ELSE elimVars(IF canElimVariableDefintion(g, prog, Head(todo), loop, loop_defs)
                THEN [b \in DOMAIN g |->
                        IF b \in loop
                        THEN [g[b] EXCEPT !.instrs = dropDefinitions(@, Head(todo))]
                        ELSE g[b]]
                ELSE g,
                prog, Tail(todo), loop, loop_defs)

\* the loop over derived_ind_vars, visited in the order ord;
\* st = [g, n, replaced_basic_vars]
RECURSIVE reduceDerived(_, _, _, _, _, _, _, _)
reduceDerived(st, ord, k, derived_ind_vars, loop, preentry, existing, reaching_definitions) ==
  LET \* what one derived variable leaves, rp being what replace_ind_vars returns
      reduceReplaced(ind_var, sr, rp) ==
        IF ind_var.var_name \notin st.replaced_basic_vars
        THEN [g |-> rp.g, n |-> rp.n,
              replaced_basic_vars |-> st.replaced_basic_vars \cup {ind_var.var_name}]
        ELSE [st EXCEPT !.g = sr.g, !.n = sr.n]
      \* sr being what strength_reduction returned
      reduceReduced(is_ptr, ind_var, sr) ==
        reduceReplaced(ind_var, sr,
          replace_ind_vars(sr.g,
            [is_ptr |-> is_ptr, basic_var |-> ind_var.var_name, a_var |-> sr.a_var,
             b_var |-> sr.b_var, derived_var |-> sr.tmp_var, existing |-> existing,
             loop_header |-> preentry, loop |-> loop,
             reaching_definitions |-> reaching_definitions],
            sr.n))
      \* one derived variable: dest with its entry e of derived_ind_vars
      reduceOne(dest, e) ==
        reduceReduced(e.instr.op = "ptradd", e.ind_var,
                      strength_reduction(st.g, e.instr.op = "ptradd", dest, existing, st.n,
                                         e.ind_var, loop, preentry))
  IN  IF k > Len(ord) THEN st
      ELSE reduceDerived(reduceOne(ord[k], derived_ind_vars[ord[k]]),
                         ord, k + 1, derived_ind_vars, loop, preentry, existing,
                         reaching_definitions)

preentryName(loop) == loop.entry \o "_preentry"

\* the pre-header node as constructed, before it is given any edge
preentryNode(loop) ==
  CFGNode([instrs |-> <<>>, termInstr |-> EffectOp("jmp", <<loop.entry>>)])

\* derived_ind_vars for one loop
derivedVars(g, loop, reaching_definitions) ==
  get_derived_induction_variables(g,
    get_basic_induction_vars(g, loop.blocks, reaching_definitions),
    loop.blocks, reaching_definitions)

\* the body of eliminateInductionVars' loop over the natural loops, for one
\* loop, with its derived variables visited in the order ord
eliminateLoop(g, prog, loop, n, existing, reaching_definitions, derived_ind_vars, ord) ==
  LET \* addHeader(func, loop.entry, preentry, ...); func.push(preentry)
      insertPreentry ==
        addHeader([b \in DOMAIN g \cup {preentryName(loop)} |->
                     IF b = preentryName(loop) THEN preentryNode(loop) ELSE g[b]],
                  loop.entry, preentryName(loop), loop.blocks \ {loop.entry})
      \* loop_defs and the eliminations, st being what the loop over the
      \* derived variables left
      eliminateWith(st) ==
        [g |-> elimVars(st.g, Append(prog, preentryName(loop)),
                        SetToSeq(st.replaced_basic_vars), loop.blocks,
                        loopDefinitions(st.g, loop.blocks)),
         prog |-> Append(prog, preentryName(loop)),
         n |-> st.n]
  IN  eliminateWith(
        reduceDerived([g |-> insertPreentry, n |-> n, replaced_basic_vars |-> {}],
                      ord, 1, derived_ind_vars, loop.blocks, preentryName(loop), existing,
                      reaching_definitions))

(***************************************************************************)
(* SpecIV: the induction-variable pass on the CFG of a function with one   *)
(* counting loop, one natural loop per step, then cfgToBril and the        *)
(* interpreter run of the function as given and as rewritten.              *)
(***************************************************************************)
MaxVal == 2

\* the loop test: cond = lt i n
IvTest == ValueOp("lt", "cond", <<"i", "n">>, "bool")

\* the derived variable: k = mul i m, k = mul m i or k = add i m
IvDerived ==
  {ValueOp("mul", "k", <<"i", "m">>, "int"), ValueOp("mul", "k", <<"m", "i">>, "int"),
   ValueOp("add", "k", <<"i", "m">>, "int")}

\* what follows the loop: nothing, or a use of the basic variable
IvAfter == {<<>>, <<EffectOp("print", <<"i">>)>>}

\* i = i0; s = step; m = multiplier; n = limit
IvSetup(i0, s, m) ==
  <<Const("i", JNum(i0), "int"), Const("s", JNum(s), "int"),
    Const("m", JNum(m), "int"), Const("n", JNum(MaxVal + 1), "int")>>

\* the loop tested at its header, and the loop that is one block
IvWhile(d, after) ==
  <<Label("L"), IvTest, EffectOp("br", <<"cond", "body", "end">>),
    Label("body"), d, EffectOp("print", <<"k">>),
    ValueOp("add", "i", <<"i", "s">>, "int"), EffectOp("jmp", <<"L">>),
    Label("end")>> \o after

IvSelfLoop(d, after) ==
  <<Label("L"), d, EffectOp("print", <<"k">>),
    ValueOp("add", "i", <<"i", "s">>, "int"), IvTest,
    EffectOp("br", <<"cond", "L", "end">>),
    Label("end")>> \o after

IvPrograms ==
  {IvSetup(i0, s, m) \o body :
     i0 \in 0..MaxVal, s \in 1..MaxVal, m \in 0..MaxVal,
     body \in {IvWhile(d, after) : d \in IvDerived, after \in IvAfter}
              \cup {IvSelfLoop(d, after) : d \in IvDerived, after \in IvAfter}}

InitIV ==
  /\ func \in IvPrograms
  /\ pc = "start"
  /\ cfg = <<>>
  /\ nodeList = <<>>
  /\ idx = 0
  /\ result = <<>>
  /\ doms = <<>>
  /\ loops = <<>>
  /\ bril = <<>>
  /\ DfIdle
  /\ RunIdle
  /\ IvIdle
  /\ HeapIdle
  /\ InterpIdle

IvCreateCFG ==
  /\ pc = "start"
  /\ LET c == createFunctionCFG(func)
     IN  IF c.err
         THEN /\ pc' = "error"
              /\ UNCHANGED <<cfg, nodeList>>
         ELSE /\ cfg' = c.cfg
              /\ nodeList' = c.nodeList
              /\ pc' = "iv"
  /\ UNCHANGED <<func, idx, result, loopVars, bril, dfVars, runVars, iv, heapVars, run>>

\* eliminateInductionVars up to its loop over the natural loops
IvAnalyze ==
  /\ pc = "iv"
  /\ LET d == getDominators(cfg, nodeList[1])
         l == findNaturalLoops(cfg, nodeList, d.doms)
     IN  IF d.err \/ l.err
         THEN /\ pc' = "ivError"
              /\ UNCHANGED <<loopVars, iv, idx>>
         ELSE /\ doms' = d.doms
              /\ loops' = l.loops
              /\ iv' = [reaching_definitions |-> dfWorklist("reachingDefinitions", cfg, nodeList),
                        defined |-> setUnion({written(cfg[b]) : b \in SeqToSet(nodeList)}),
                        fresh_var |-> 0]
              /\ idx' = 1
              /\ pc' = IF l.loops = <<>> THEN "ivDone" ELSE "ivLoop"
  /\ UNCHANGED <<func, cfg, nodeList, result, bril, dfVars, runVars, heapVars, run>>

\* one iteration of the loop over the natural loops.  addHeader asks its
\* Set<CFGNode> parameter has(p) and is handed a HashSet, which has no such
\* method: the call throws, or it tests membership as with the Set the
\* signature names.  The derived variables are visited in any order.
IvLoop ==
  LET \* what the iteration leaves, r being what eliminateLoop returned
      IvLoopDone(r) ==
        /\ cfg' = r.g
        /\ nodeList' = r.prog
        /\ iv' = [iv EXCEPT !.fresh_var = r.n]
        /\ idx' = idx + 1
        /\ pc' = IF idx = Len(loops) THEN "ivDone" ELSE "ivLoop"
      IvLoopWith(derived_ind_vars) ==
        \E hasThrows \in BOOLEAN :
        \E ord \in Orders(DOMAIN derived_ind_vars) :
          IF hasThrows
          THEN /\ pc' = "ivError"
               /\ UNCHANGED <<cfg, nodeList, iv, idx>>
          ELSE IvLoopDone(eliminateLoop(cfg, nodeList, loops[idx], iv.fresh_var, iv.defined,
                                        iv.reaching_definitions, derived_ind_vars, ord))
  IN  /\ pc = "ivLoop"
      /\ IvLoopWith(derivedVars(cfg, loops[idx], iv.reaching_definitions))
      /\ UNCHANGED <<func, result, loopVars, bril, dfVars, runVars, heapVars, run>>

IvCfgToBril ==
  /\ pc = "ivDone"
  /\ bril' = cfgToBril(cfg, nodeList)
  /\ pc' = "serialized"
  /\ UNCHANGED <<func, cfg, nodeList, idx, result, loopVars, dfVars, runVars, iv, heapVars, run>>

NextIV == IvCreateCFG \/ IvAnalyze \/ IvLoop \/ IvCfgToBril \/ Interpret

SpecIV == InitIV /\ [][NextIV]_vars

MaxAllocs == 2

MaxAmt == 1

\* the keys a client can hold: of any base up to the number of allocations
\* made, with offsets from below zero to the largest length
HeapKeys == {PtrV(b, o, "ptr<int>") : b \in 0..MaxAllocs, o \in (0 - 1)..MaxAmt}

\* the values a client writes
HeapVals == {IntV(0), IntV(1)}

\* the record of a call: the method, its arguments, whether it threw and
\* what it returned
HeapCall(op, key, val, amt, err, ret) ==
  [op |-> op, key |-> key, val |-> val, amt |-> amt, err |-> err, ret |-> ret]

InitHeap ==
  /\ func = <<>>
  /\ pc = "heap"
  /\ cfg = <<>>
  /\ nodeList = <<>>
  /\ idx = 0
  /\ result = <<>>
  /\ doms = <<>>
  /\ loops = <<>>
  /\ bril = <<>>
  /\ DfIdle
  /\ RunIdle
  /\ IvIdle
  /\ InterpIdle
  /\ mem = EmptyHeap
  /\ call = HeapCall("new", Undef, Undef, 0, FALSE, Undef)

heapFrame ==
  UNCHANGED <<func, pc, cfg, nodeList, idx, result, loopVars, bril, dfVars, runVars, iv, run>>

\* heap.alloc(amt)
Alloc ==
  LET done(amt, r) ==
        /\ mem' = r.heap
        /\ call' = HeapCall("alloc", Undef, Undef, amt, r.err,
                            IF r.err THEN Undef ELSE PtrV(r.base, 0, "ptr<int>"))
  IN  /\ pc = "heap"
      /\ mem.count < MaxAllocs
      /\ \E amt \in (0 - 1)..MaxAmt : done(amt, HeapAlloc(mem, amt))
      /\ heapFrame

\* heap.free(key)
Free ==
  LET done(key, r) ==
        /\ mem' = r.heap
        /\ call' = HeapCall("free", key, Undef, 0, r.err, Undef)
  IN  /\ pc = "heap"
      /\ \E key \in HeapKeys : done(key, HeapFree(mem, key))
      /\ heapFrame

\* heap.write(key, val)
Write ==
  LET done(key, val, r) ==
        /\ mem' = r.heap
        /\ call' = HeapCall("write", key, val, 0, r.err, Undef)
  IN  /\ pc = "heap"
      /\ \E key \in HeapKeys, val \in HeapVals : done(key, val, HeapWrite(mem, key, val))
      /\ heapFrame

\* heap.read(key)
Read ==
  LET done(key, r) ==
        /\ mem' = mem
        /\ call' = HeapCall("read", key, Undef, 0, r.err, r.val)
  IN  /\ pc = "heap"
      /\ \E key \in HeapKeys : done(key, HeapRead(mem, key))
      /\ heapFrame

\* key.add(offset)
Add ==
  /\ pc = "heap"
  /\ \E key \in HeapKeys, offset \in {0 - 1, 1} :
       call' = HeapCall("add", key, Undef, offset, FALSE, KeyAdd(key, offset))
  /\ mem' = mem
  /\ heapFrame

NextHeap == Alloc \/ Free \/ Write \/ Read \/ Add

SpecHeap == InitHeap /\ [][NextHeap]_vars

\* the bases of the allocations that are live in h
LiveBases(h) == DOMAIN h.storage

\* C12: a free succeeds exactly when the key has offset 0 and its base is a
\* live allocation; after it succeeded the base is not live any more and a
\* second free of the same key fails
C12_FreeContract ==
  [][(call' # call /\ call'.op = "free") =>
       /\ ~call'.err <=> (call'.key.off = 0 /\ call'.key.base \in LiveBases(mem))
       /\ ~call'.err => /\ call'.key.base \notin LiveBases(mem')
                        /\ HeapFree(mem', call'.key).err
       /\ call'.err => mem' = mem]_vars

\* a second free of a key that was allocated and freed before has failed
C12_Witness ==
  /\ call.op = "free"
  /\ call.err
  /\ call.key.off = 0
  /\ call.key.base < mem.count
  /\ call.key.base \notin LiveBases(mem)

\* the cells that exist in h, as keys
Cells(h) ==
  {k \in HeapKeys : k.base \in LiveBases(h) /\ 0 <= k.off /\ k.off < Len(h.storage[k.base])}

\* what the cell of key k holds in h
CellOf(h, k) == h.storage[k.base][k.off + 1]

\* C13: a read and a write succeed exactly for a key whose base is live and
\* whose offset is within the allocation; add always returns the shifted
\* key, whatever the offset becomes; a written value is what a read of the
\* key returns, and a cell keeps its value through every call but a write
\* to it
C13_ReadWriteContract ==
  [][call' # call =>
       /\ call'.op \in {"read", "write"} => (~call'.err <=> call'.key \in Cells(mem))
       /\ (call'.op = "read" /\ ~call'.err) => call'.ret = CellOf(mem, call'.key)
       /\ (call'.op = "write" /\ ~call'.err) =>
            /\ CellOf(mem', call'.key) = call'.val
            /\ HeapRead(mem', call'.key) = [err |-> FALSE, val |-> call'.val]
       /\ call'.op = "add" =>
            /\ ~call'.err
            /\ call'.ret.base = call'.key.base
            /\ call'.ret.off = call'.key.off + call'.amt
       /\ \A k \in Cells(mem) \cap Cells(mem') :
            (call'.op = "write" /\ call'.key = k) \/ CellOf(mem', k) = CellOf(mem, k)]_vars

\* a read has returned the value written to the cell before
C13_Witness ==
  /\ call.op = "read"
  /\ ~call.err
  /\ call.ret = IntV(1)

(***************************************************************************)
(* SpecRun: brili's main on a program whose only function is main, one     *)
(* item of the function per step; mem is the Heap evalProg creates.        *)
(***************************************************************************)
MaxRunLen == 3

\* the items of the functions run: after one = const 1
RunItems ==
  {ValueOp("alloc", "p", <<"one">>, "ptr<int>"), EffectOp("free", <<"p">>),
   EffectOp("store", <<"p", "one">>), ValueOp("load", "x", <<"p">>, "int"),
   ValueOp("ptradd", "q", <<"p", "one">>, "ptr<int>"), EffectOp("free", <<"q">>),
   EffectOp("print", <<"one">>), EffectOp("ret", <<>>),
   EffectOp("jmp", <<"A">>), Label("A")}

RunPrograms ==
  {<<Const("one", JNum(1), "int")>> \o body :
     body \in UNION {[1..k -> RunItems] : k \in 0..MaxRunLen}}

\* no 'Executed N intructions.' line written
NoLine == [written |-> FALSE, n |-> 0]

InitRun ==
  /\ func \in RunPrograms
  /\ pc = "brili"
  /\ cfg = <<>>
  /\ nodeList = <<>>
  /\ idx = 0
  /\ result = <<>>
  /\ doms = <<>>
  /\ loops = <<>>
  /\ bril = <<>>
  /\ DfIdle
  /\ RunIdle
  /\ IvIdle
  /\ mem = <<>>
  /\ call = <<>>
  /\ \E ic \in BOOLEAN :
       run = [at |-> "main", instructionCount |-> ic, i |-> 0, env |-> <<>>, out |-> <<>>,
              num_insns_executed |-> 0, returned |-> 0, result |-> 0, thrown |-> "",
              line |-> NoLine]

runFrame ==
  UNCHANGED <<func, pc, cfg, nodeList, idx, result, loopVars, bril, dfVars, runVars, iv, call>>

\* main calls evalProg: the heap, the outer result, and evalFunc entered
EvalProgStart ==
  /\ run.at = "main"
  /\ run.line = NoLine
  /\ run.result = 0
  /\ mem' = EmptyHeap
  /\ run' = [run EXCEPT !.at = "evalFunc", !.result = 0 - 1, !.i = 1]
  /\ runFrame

\* evalFunc: one iteration of its for loop, items being func.instrs
evalFuncIteration(items) ==
  LET \* the switch on the Action r that evalInstr returned
      onAction(r) ==
        /\ mem' = r.heap
        /\ run' =
             CASE r.action = "throw" ->
                    [run EXCEPT !.at = "error", !.thrown = "instruction",
                                !.num_insns_executed = @ + 1]
               [] r.action = "end" ->
                    [run EXCEPT !.at = "evalProg", !.num_insns_executed = @ + 1,
                                !.returned = run.num_insns_executed + 1]
               [] r.action = "label" ->
                    IF findLabel(items, r.label) = 0
                    THEN [run EXCEPT !.at = "error", !.thrown = "label not found",
                                     !.num_insns_executed = @ + 1]
                    ELSE [run EXCEPT !.i = findLabel(items, r.label) + 1, !.env = r.env,
                                     !.num_insns_executed = @ + 1]
               [] r.action = "next" ->
                    [run EXCEPT !.i = @ + 1, !.env = r.env, !.out = @ \o r.out,
                                !.num_insns_executed = @ + 1]
  IN  /\ run.at = "evalFunc"
      /\ run.i <= Len(items)
      /\ run.num_insns_executed < MaxSteps
      /\ IF IsLabel(items[run.i])
         THEN /\ run' = [run EXCEPT !.i = @ + 1, !.num_insns_executed = @ + 1]
              /\ mem' = mem
         ELSE onAction(evalInstr(items[run.i], run.env, mem))

EvalFuncStep ==
  /\ evalFuncIteration(func)
  /\ runFrame

\* evalFunc: the loop has run off the end of the function
EvalFuncReturn ==
  /\ run.at = "evalFunc"
  /\ run.i > Len(func)
  /\ run' = [run EXCEPT !.at = "evalProg", !.returned = run.num_insns_executed]
  /\ mem' = mem
  /\ runFrame

\* evalProg after its loop over the functions: the heap test and the return
EvalProgReturn ==
  /\ run.at = "evalProg"
  /\ run' = IF ~HeapIsEmpty(mem)
            THEN [run EXCEPT !.at = "error", !.thrown = "not freed"]
            ELSE [run EXCEPT !.at = "report"]
  /\ mem' = mem
  /\ runFrame

\* main after evalProg: the line written when instruction counting is on
MainReport ==
  /\ run.at = "report"
  /\ run' = [run EXCEPT !.at = "done",
                        !.line = IF run.instructionCount
                                 THEN [written |-> TRUE, n |-> run.result] ELSE NoLine]
  /\ mem' = mem
  /\ runFrame

NextRun == EvalProgStart \/ EvalFuncStep \/ EvalFuncReturn \/ EvalProgReturn \/ MainReport

SpecRun == InitRun /\ [][NextRun]_vars

\* C14: a run ends successfully only with no allocation live, a run whose
\* function has ended with an allocation live ends in an error, and isEmpty
\* is true exactly when no base is live (no key can be freed)
C14_HeapEmptyAtEnd ==
  /\ run.at \in {"report", "done"} => LiveBases(mem) = {}
  /\ (run.at = "error" /\ run.thrown = "not freed") => LiveBases(mem) # {}
  /\ run.at = "evalProg" => ENABLED EvalProgReturn
  /\ run.at \in {"evalFunc", "evalProg", "report", "done", "error"} =>
       (HeapIsEmpty(mem) <=>
          \A b \in 0..mem.count : HeapFree(mem, PtrV(b, 0, "int")).err)

\* a run that allocated has ended successfully
C14_Witness ==
  /\ run.at = "done"
  /\ mem.count >= 1

\* C18: with instruction counting on, the N of the line 'Executed N
\* intructions.' that a successful run writes is the instructionCount that
\* evalFunc returned for main
C18_ReportedCountIsEvalFuncCount ==
  (run # <<>> /\ run.at = "done" /\ run.instructionCount) =>
    /\ run.line.written
    /\ run.line.n = run.returned

\* the labels a jmp or br of the function names that no label item defines
UndefinedTargets(items) ==
  {l \in UNION {SeqToSet(getSuccessors(items[k])) :
                  k \in {j \in 1..Len(items) : items[j].op \in {"jmp", "br"}}} :
     \A k \in 1..Len(items) : items[k] # Label(l)}

\* C15: for a function in which a jmp or br names a label that is not
\* defined, createCFG stops with an error: it never gets past its wiring loop
C15_UndefinedLabelIsError ==
  UndefinedTargets(func) # {} => pc \in {"start", "wire", "error"}

\* the terminated blocks createCFG starts from
termBlocksOf(items) == addFallThroughTerminators(createBasicBlocks(items))

\* C19: once createCFG has wired the nodes, the node of every block ending in
\* br c L1 L2, L1 and L2 distinct and defined, has the terminator br c L1 L2
C19_BranchTargetsKeepTheirRoles ==
  (pc = "built" /\ UndefinedTargets(func) = {}) =>
    \A k \in 1..Len(termBlocksOf(func)) :
      LET b == termBlocksOf(func)[k]
      IN  (/\ b.name \in DOMAIN cfg
           /\ b.termInstr.op = "br"
           /\ b.termInstr.args[2] # b.termInstr.args[3]) =>
            cfg[b.name].termInstr = b.termInstr


(***************************************************************************)
(* SpecDFOrder: dfWorklist called with the nodes of the CFG in any order.  *)
(***************************************************************************)
OrderPrograms ==
  {<<Const("x", JNum(1), "int"), Label("A")>> \o body \o tA \o <<Label("B")>> \o post \o tB :
     body \in DfBodies,
     post \in {<<>>, <<EffectOp("print", <<"c">>)>>},
     tA \in {<<>>, <<EffectOp("jmp", <<"A">>)>>,
             <<EffectOp("br", <<"c", "A", "B">>)>>,
             <<EffectOp("br", <<"c", "B", "A">>)>>},
     tB \in {<<>>, <<EffectOp("jmp", <<"A">>)>>, <<EffectOp("ret", <<>>)>>}}

InitDFOrder ==
  /\ func \in OrderPrograms
  /\ LET c == createFunctionCFG(func)
     IN  /\ ~c.err
         /\ cfg = c.cfg
         /\ nodeList = c.nodeList
  /\ pc = "built"
  /\ idx = 0
  /\ result = <<>>
  /\ doms = <<>>
  /\ loops = <<>>
  /\ bril = <<>>
  /\ DfIdle
  /\ RunIdle
  /\ IvIdle
  /\ HeapIdle
  /\ InterpIdle

\* dfWorklist called with the nodes in some order
DfStartAnyOrder ==
  /\ pc = "built"
  /\ \E a \in Analyses : \E blocks \in Orders(SeqToSet(nodeList)) : DfCall(a, blocks)
  /\ pc' = "df"
  /\ UNCHANGED <<func, cfg, nodeList, idx, result, loopVars, bril, dfResult, runVars, iv, heapVars, run>>

NextDFOrder == DfStartAnyOrder \/ DfStep \/ DfReturn

SpecDFOrder == InitDFOrder /\ [][NextDFOrder]_vars

\* C16: whatever the order of the node list dfWorklist is given and the order
\* in which the re-queued nodes are taken, the maps it returns are those of
\* the run on the list createCFG returned, successors taken in a fixed order
C16_OrderInsensitive ==
  pc = "dfDone" => dfResult = dfWorklist(analysis, cfg, nodeList)

\* a run on a list in another order than createCFG's has returned maps that
\* are not empty, for a CFG with a node of two successors
C16_Witness ==
  /\ pc = "dfDone"
  /\ dfBlocks # nodeList
  /\ \E n \in DOMAIN cfg : Cardinality(cfg[n].successors) = 2
  /\ \E n \in DOMAIN dfResult.ins : dfResult.ins[n] # {}

(***************************************************************************)
(* SpecDFLive: SpecDF with the loop of dfWorklist running on: the code is  *)
(* sequential, so a step that can be taken is taken.                       *)
(***************************************************************************)
SpecDFLive == SpecDF /\ WF_vars(NextDF)

\* C17: every call of dfWorklist reaches the end of its while loop: the
\* worklist becomes empty
C17_WorklistTerminates ==
  (pc = "df") ~> (pc = "df" /\ worklist = <<>>)

\* a run of reachingDefinitions over a loop of two blocks has returned, a
\* definition made in the loop reaching the loop's first block
C17_Witness ==
  /\ pc = "dfDone"
  /\ analysis = "reachingDefinitions"
  /\ \E n \in Nodes : \E m \in cfg[n].successors \ {n} :
       /\ n \in cfg[m].successors
       /\ \E d \in dfResult.ins[n] : d.block = m


\* the instructions of a list that have no destination, in their order
effectInstrs(instrs) ==
  LET isEffect(i) == ~isValueInstruction(i)
  IN  SelectSeq(instrs, isEffect)

\* C20: while and after eliminateDeadCode works on the CFG createFunctionCFG
\* built, every node's instruction list is a subsequence of the one it was
\* built with and holds the same effect instructions in the same order, and
\* every node's terminator, successors and predecessors are as built
C20_DceOnlyRemovesValueInstrs ==
  LET \* built: the CFG createFunctionCFG returned
      asBuilt(built) ==
        /\ DOMAIN cfg = DOMAIN built
        /\ \A n \in DOMAIN cfg :
             /\ IsSubseq(cfg[n].instrs, built[n].instrs)
             /\ effectInstrs(cfg[n].instrs) = effectInstrs(built[n].instrs)
             /\ cfg[n].termInstr = built[n].termInstr
             /\ cfg[n].successors = built[n].successors
             /\ cfg[n].predecessors = built[n].predecessors
  IN  pc \in {"dce", "dceDone"} => asBuilt(createFunctionCFG(func).cfg)

\* eliminateDeadCode has returned with a node that lost a value instruction
\* and holds a print and a free
C20_Witness ==
  LET lostOne(built) ==
        \E n \in DOMAIN cfg :
          /\ Len(cfg[n].instrs) < Len(built[n].instrs)
          /\ \E k \in 1..Len(cfg[n].instrs) : cfg[n].instrs[k].op = "free"
          /\ \E k \in 1..Len(cfg[n].instrs) : cfg[n].instrs[k].op = "print"
  IN  pc = "dceDone" /\ lostOne(createFunctionCFG(func).cfg)

\* the bases getNewBase has handed out on h so far
HandedOut(h) == 0..(h.count - 1)

\* C30: an alloc of a positive amount returns Key(base, 0) with a base that
\* no earlier alloc returned (live or freed) and maps it to an array of that
\* length, leaving the other allocations alone; an alloc of 0 or of a
\* negative amount fails and leaves the heap as it was; and a base that was
\* handed out and freed stays dead through every later call: no read, write
\* or free of a key of it succeeds
C30_AllocFresh ==
  [][/\ LiveBases(mem) \subseteq HandedOut(mem)
     /\ HandedOut(mem) \subseteq HandedOut(mem')
     /\ (call' # call /\ call'.op = "alloc") =>
          IF call'.amt > 0
          THEN /\ ~call'.err
               /\ call'.ret.kind = "ptr" /\ call'.ret.off = 0
               /\ call'.ret.base \notin HandedOut(mem)
               /\ call'.ret.base \in HandedOut(mem')
               /\ LiveBases(mem') = LiveBases(mem) \cup {call'.ret.base}
               /\ Len(mem'.storage[call'.ret.base]) = call'.amt
               /\ \A b \in LiveBases(mem) : mem'.storage[b] = mem.storage[b]
          ELSE call'.err /\ mem' = mem
     /\ \A key \in HeapKeys :
          (key.base \in HandedOut(mem) \ LiveBases(mem)) =>
            /\ key.base \notin LiveBases(mem')
            /\ HeapRead(mem', key).err
            /\ HeapFree(mem', key).err
            /\ \A val \in HeapVals : HeapWrite(mem', key, val).err
            /\ (call' # call /\ call'.key = key /\ call'.op \in {"read", "write", "free"})
                 => call'.err]_vars

\* an alloc has succeeded after the first allocation was freed
C30_Witness ==
  /\ call.op = "alloc"
  /\ ~call.err
  /\ call.ret.base >= 1
  /\ 0 \notin LiveBases(mem)

(***************************************************************************)
(* SpecReach: reachingTransfer applied to one block b and an incoming set. *)
(***************************************************************************)
MaxReachLen == 3

ReachInstrs ==
  {Const("x", JNum(1), "int"), ValueOp("id", "y", <<"x">>, "int"),
   ValueOp("add", "x", <<"x", "y">>, "int"), EffectOp("print", <<"x">>)}

\* definitions that may come in: made in another block a or in b itself
ReachDefs ==
  {Definition("x", "a", 0), Definition("x", "b", 0), Definition("y", "a", 1),
   Definition("y", "b", 2), Definition("z", "a", 2)}

InitReach ==
  /\ func = <<>>
  /\ pc = "reach"
  /\ \E instrs \in UNION {[1..k -> ReachInstrs] : k \in 0..MaxReachLen} :
       cfg = ("b" :> CFGNode([instrs |-> instrs, termInstr |-> EffectOp("ret", <<>>)]))
  /\ nodeList = <<"b">>
  /\ idx = 0
  /\ result = <<>>
  /\ doms = <<>>
  /\ loops = <<>>
  /\ bril = <<>>
  /\ analysis = "reachingDefinitions"
  /\ \E inVals \in SUBSET ReachDefs : ins = ("b" :> inVals)
  /\ outs = <<>>
  /\ worklist = <<>>
  /\ dfResult = <<>>
  /\ dfBlocks = <<>>
  /\ RunIdle
  /\ IvIdle
  /\ HeapIdle
  /\ InterpIdle

\* analysis.transfer(node, inVal) for reachingDefinitions
ReachTransfer ==
  /\ pc = "reach"
  /\ outs' = ("b" :> reachingTransfer(cfg, "b", ins["b"]))
  /\ pc' = "reached"
  /\ UNCHANGED <<func, cfg, nodeList, idx, result, loopVars, bril, analysis, ins, worklist,
                 dfResult, dfBlocks, runVars, iv, heapVars, run>>

NextReach == ReachTransfer

SpecReach == InitReach /\ [][NextReach]_vars

\* the 0-based index of the last instruction of the list that writes v
lastWrite(instrs, v) ==
  (CHOOSE k \in 1..Len(instrs) :
     /\ isValueInstruction(instrs[k]) /\ instrs[k].dest = v
     /\ \A j \in (k + 1)..Len(instrs) : ~(isValueInstruction(instrs[j]) /\ instrs[j].dest = v)) - 1

\* C28: the set reachingTransfer returns holds, for a variable the block
\* writes, the one definition at the block's last write of it, and for any
\* other variable the incoming definitions of it
C28_ReachingKillGen ==
  pc = "reached" =>
    \A v \in {"x", "y", "z"} :
      {d \in outs["b"] : d.varName = v} =
        IF v \in written(cfg["b"])
        THEN {Definition(v, "b", lastWrite(cfg["b"].instrs, v))}
        ELSE {d \in ins["b"] : d.varName = v}

\* a block that writes x twice was given definitions of x, y and z
C28_Witness ==
  /\ pc = "reached"
  /\ Cardinality({k \in 1..Len(cfg["b"].instrs) : cfg["b"].instrs[k].dest = "x"}) = 2
  /\ ins["b"] = ReachDefs
  /\ Definition("x", "b", 2) \in outs["b"]

\* the variables an instruction reads
readBy(i) == IF isOperation(i) THEN SeqToSet(i.args) ELSE {}

\* instruction k of the list writes v and a later instruction reads v before
\* v is written again
readLater(instrs, k, v) ==
  \E j \in (k + 1)..Len(instrs) :
    /\ v \in readBy(instrs[j])
    /\ \A l \in (k + 1)..(j - 1) : ~(isValueInstruction(instrs[l]) /\ instrs[l].dest = v)

\* C27: when eliminateDeadCode has returned, every value instruction left in
\* a block is read later in the block before its variable is written again,
\* or is the block's last write of a variable that is live out of the block
\* (liveVars on the final CFG) or an argument of the block's terminator
C27_NoDeadWriteRemains ==
  LET noDeadWrite(liveNodes) ==
        \A n \in Nodes : \A k \in 1..Len(cfg[n].instrs) :
          isValueInstruction(cfg[n].instrs[k]) =>
            \/ readLater(cfg[n].instrs, k, cfg[n].instrs[k].dest)
            \/ /\ \A j \in (k + 1)..Len(cfg[n].instrs) :
                     ~(isValueInstruction(cfg[n].instrs[j])
                       /\ cfg[n].instrs[j].dest = cfg[n].instrs[k].dest)
               /\ \/ cfg[n].instrs[k].dest \in liveNodes.outs[n]
                  \/ cfg[n].instrs[k].dest \in SeqToSet(cfg[n].termInstr.args)
  IN  pc = "dceDone" => noDeadWrite(dfWorklist("liveVars", cfg, nodeList))

\* eliminateDeadCode has removed instructions and returned; a write that is
\* not read in its block is left because its variable is live out, and a
\* write that is read later in its block is left too
C27_Witness ==
  LET kept(liveNodes) ==
        /\ \E n \in Nodes : \E k \in 1..Len(cfg[n].instrs) :
             /\ isValueInstruction(cfg[n].instrs[k])
             /\ ~readLater(cfg[n].instrs, k, cfg[n].instrs[k].dest)
             /\ cfg[n].instrs[k].dest \in liveNodes.outs[n]
        /\ \E n \in Nodes : \E k \in 1..Len(cfg[n].instrs) :
             /\ isValueInstruction(cfg[n].instrs[k])
             /\ readLater(cfg[n].instrs, k, cfg[n].instrs[k].dest)
  IN  pc = "dceDone" /\ idx >= 2 /\ kept(dfWorklist("liveVars", cfg, nodeList))

(***************************************************************************)
(* SpecIVShape: the induction-variable pass on functions picked for the    *)
(* shape of their CFG: a loop whose header is the first block, a loop that *)
(* is one block, two back edges into one header, a variable written twice  *)
(* in a loop.  No variable of these                                        *)
(* loops is derived, so every pre-header is an empty block.                *)
(***************************************************************************)
\* what precedes the loop
ShapePre ==
  {<<>>, <<Const("i", JNum(0), "int")>>,
   <<Const("i", JNum(0), "int"), EffectOp("jmp", <<"L">>)>>}

\* the loop that is one block
ShapeSelfLoop(s) ==
  <<Label("L"), Const("s", JNum(s), "int"), ValueOp("add", "i", <<"i", "s">>, "int"), IvTest,
    EffectOp("br", <<"cond", "L", "end">>), Label("end")>>

\* the loop tested at its header
ShapeWhile(s) ==
  <<Label("L"), IvTest, EffectOp("br", <<"cond", "body", "end">>),
    Label("body"), Const("s", JNum(s), "int"), ValueOp("add", "i", <<"i", "s">>, "int"),
    EffectOp("jmp", <<"L">>), Label("end")>>

\* two back edges into L, from A and from B
ShapeTwoTails(s) ==
  <<Label("L"), IvTest, EffectOp("br", <<"cond", "A", "end">>),
    Label("A"), Const("s", JNum(s), "int"), ValueOp("add", "i", <<"i", "s">>, "int"),
    EffectOp("br", <<"cond", "L", "B">>),
    Label("B"), EffectOp("jmp", <<"L">>), Label("end")>>

\* a loop of one block in which m is written twice, last by a const
ShapeOverwrite(s) ==
  <<Label("L"), Const("s", JNum(s), "int"), ValueOp("add", "m", <<"m", "s">>, "int"),
    Const("m", JNum(1), "int"), ValueOp("add", "i", <<"i", "s">>, "int"), IvTest,
    EffectOp("br", <<"cond", "L", "end">>), Label("end")>>

IvShapes ==
  {pre \o loop \o after :
     pre \in ShapePre, after \in IvAfter,
     loop \in UNION {{ShapeSelfLoop(s), ShapeWhile(s), ShapeTwoTails(s), ShapeOverwrite(s)} :
                       s \in 1..MaxVal}}

InitIVShape ==
  /\ func \in IvShapes
  /\ pc = "start"
  /\ cfg = <<>>
  /\ nodeList = <<>>
  /\ idx = 0
  /\ result = <<>>
  /\ doms = <<>>
  /\ loops = <<>>
  /\ bril = <<>>
  /\ DfIdle
  /\ RunIdle
  /\ IvIdle
  /\ HeapIdle
  /\ InterpIdle

SpecIVShape == InitIVShape /\ [][NextIV]_vars

\* the names of a node list are pairwise distinct
DistinctNames(nodes) ==
  \A j \in 1..Len(nodes) : \A k \in 1..Len(nodes) : nodes[j] = nodes[k] => j = k

C29_LoopInvariantIff ==
  LET inLoop(v, defs) == {d \in defs : d.varName = v}
      single(g, ds) == Cardinality(ds) = 1 /\ \A d \in ds : isConstant(getInstructionAt(g, d))
  IN  (pc = "ivLoop" /\ idx = 1) =>
        \A k \in 1..Len(loops) : \A v \in {"i", "s", "m", "n", "cond"} :
          is_loop_invariant(cfg, v, loops[k].blocks, iv.reaching_definitions)
            <=> \/ inLoop(v, loopDefinitions(cfg, loops[k].blocks)) = {}
                \/ single(cfg, inLoop(v, loopDefinitions(cfg, loops[k].blocks)))

(***************************************************************************)
(* SpecIVRun: the induction-variable pass, then brili on the function it   *)
(* produced, one item per step.  The loop test is lt i n or lt n i, the    *)
(* basic variable is printed after the loop (so its update stays), the     *)
(* multiplier may be negative.                                             *)
(***************************************************************************)
IvTests == {IvTest, ValueOp("lt", "cond", <<"n", "i">>, "bool")}

IvWhileTest(t, d) ==
  <<Label("L"), t, EffectOp("br", <<"cond", "body", "end">>),
    Label("body"), d, EffectOp("print", <<"k">>),
    ValueOp("add", "i", <<"i", "s">>, "int"), EffectOp("jmp", <<"L">>),
    Label("end"), EffectOp("print", <<"i">>)>>

IvSelfLoopTest(t, d) ==
  <<Label("L"), d, EffectOp("print", <<"k">>),
    ValueOp("add", "i", <<"i", "s">>, "int"), t,
    EffectOp("br", <<"cond", "L", "end">>),
    Label("end"), EffectOp("print", <<"i">>)>>

IvRunPrograms ==
  {IvSetup(i0, s, m) \o body :
     i0 \in 0..MaxVal, s \in 1..MaxVal, m \in (0 - 1)..MaxVal,
     body \in UNION {{IvWhileTest(t, d), IvSelfLoopTest(t, d)} : t \in IvTests, d \in IvDerived}}

InitIVRun ==
  /\ func \in IvRunPrograms
  /\ pc = "start"
  /\ cfg = <<>>
  /\ nodeList = <<>>
  /\ idx = 0
  /\ result = <<>>
  /\ doms = <<>>
  /\ loops = <<>>
  /\ bril = <<>>
  /\ DfIdle
  /\ RunIdle
  /\ IvIdle
  /\ HeapIdle
  /\ InterpIdle

\* brili on the function the pass produced: evalProg up to the call of evalFunc
BrilStart ==
  /\ pc = "serialized"
  /\ run = <<>>
  /\ mem' = EmptyHeap
  /\ run' = [at |-> "evalFunc", instructionCount |-> FALSE, i |-> 1, env |-> <<>>,
             out |-> <<>>, num_insns_executed |-> 0, returned |-> 0, result |-> 0 - 1,
             thrown |-> "", line |-> NoLine]
  /\ runFrame

\* evalFunc on the function the pass produced: one iteration of its loop
BrilStep ==
  /\ pc = "serialized"
  /\ run # <<>>
  /\ evalFuncIteration(bril)
  /\ runFrame

\* every function cfgToBril yields here ends each block with ret, jmp or br,
\* so evalFunc leaves its loop by ret only
NextIVRun ==
  IvCreateCFG \/ IvAnalyze \/ IvLoop \/ IvCfgToBril \/ BrilStart \/ BrilStep

SpecIVRun == InitIVRun /\ [][NextIVRun]_vars

\* the value of a descriptor's expression tree, its leaves read in env
RECURSIVE evalOpt(_, _)
evalOpt(opt, env) ==
  IF opt = NoOpt THEN 0
  ELSE IF opt.kids = <<>> THEN env[opt.arg].n
  ELSE IF opt.op = "mul" THEN evalOpt(opt.kids[1], env) * evalOpt(opt.kids[2], env)
  ELSE evalOpt(opt.kids[1], env) + evalOpt(opt.kids[2], env)

\* the values of the constants the function sets up before the loop
setupEnv(items) ==
  [v \in {items[k].dest : k \in {j \in 1..Len(items) : isConstant(items[j])}} |->
     IntV(items[CHOOSE k \in 1..Len(items) : isConstant(items[k]) /\ items[k].dest = v].value.num)]

\* the item brili has just executed, when it moved on to the next item
justExecuted ==
  IF run # <<>> /\ run.at = "evalFunc" /\ run.i > 1 /\ run.i - 1 <= Len(bril)
  THEN bril[run.i - 1] ELSE Label("")

\* the derived variables of the function's loop, as the pass recorded them
recordedDerived ==
  LET of(built) == derivedVars(built.cfg, loops[1], iv.reaching_definitions)
  IN  of(createFunctionCFG(func))

C22_DescriptorCorrect ==
  LET defined(instr, i, x, env) ==
        IF instr.op = "mul"
        THEN x * env[instr.args[3 - i]].n
        ELSE x + env[instr.args[3 - i]].n
      correct(e, env) ==
        \A x \in (0 - MaxVal)..MaxVal :
          defined(e.instr, indexOf(e.instr.args, e.ind_var.var_name), x, env)
            = evalOpt(e.ind_var.a, env) * x + evalOpt(e.ind_var.b, env)
      all(dv) == \A k \in DOMAIN dv : correct(dv[k], setupEnv(func))
  IN  (pc = "ivLoop" /\ idx = 1) => all(recordedDerived)

====
